---- MODULE Spec2Model ----
(***************************************************************************)
(* State-machine model of the BTU scheduler daemon: the three worker       *)
(* threads of btu_daemon/src/daemon.rs (1_Internal_Queue, 2_Auto_Refill,   *)
(* 3_Scheduler), the Unix-socket handler of btu_daemon/src/ipc_stream.rs   *)
(* and the Redis operations of btu_scheduler/src/scheduler.rs and rq.rs.   *)
(*                                                                         *)
(* Strings that the code formats, parses or compares by prefix (schedule   *)
(* ids and sorted-set members) are sequences of one-character strings.     *)
(* Time is a small integer clock of seconds that starts at                 *)
(* 2021-12-25T00:00:00Z.                                                   *)
(***************************************************************************)
EXTENDS Integers, Sequences, FiniteSets, TLC

VARIABLES
    now,             \* Utc::now().timestamp()
    db,              \* `tabBTU Task Schedule`: id -> "absent" | "disabled" | "enabled"
    redisUp,         \* whether get_redis_connection() yields a connection
    internal_queue,  \* Arc<Mutex<VecDeque<String>>>
    queuePoisoned,   \* the InternalQueue mutex is poisoned
    configPoisoned,  \* the APP_CONFIG mutex is poisoned
    index,           \* sorted set btu_scheduler:task_execution_times
    jobs,            \* hashes rq:job:<uuid>
    queues,          \* lists rq:queue:<name>
    registry,        \* set rq:queues
    uuid,            \* number of job ids generated so far
    mpc,             \* main thread
    dpc,             \* thread 1_Internal_Queue
    next_task_schedule_id,  \*   the id it popped
    rpc,             \* thread 2_Auto_Refill
    stopwatch,       \*   its Instant of the last refill
    kpc,             \* thread 3_Scheduler
    ripe,            \*   the instances fetched by the current poll
    fired,           \*   outcome of the last run_immediate_scheduled_task
    hpc,             \* thread Unix_Socket_Handler
    hreq,            \*   its request
    hreply,          \*   what it wrote to the stream and what it returned
    call,            \* a library function called on its own: name and arguments
    returned,        \*   and what it returned
    sqlUp            \* whether get_mysql_conn() yields a connection

vars == <<now, db, redisUp, internal_queue, queuePoisoned, configPoisoned,
          index, jobs, queues, registry, uuid, mpc, dpc,
          next_task_schedule_id, rpc, stopwatch, kpc, ripe, fired, hpc, hreq,
          hreply, call, returned, sqlUp>>

-----------------------------------------------------------------------------
(* Bounds of the model.                                                    *)

MaxTime == 2
MaxQueue == 2
MaxJobs == 2

-----------------------------------------------------------------------------
(* Characters and strings.                                                 *)

None == "None"

Pipe == "|"

Digits == <<"0", "1", "2", "3", "4", "5", "6", "7", "8", "9">>

\* byte order of the characters that occur, for string comparison
CharCode(c) ==
    CASE c = "0" -> 48 [] c = "1" -> 49 [] c = "2" -> 50 [] c = "3" -> 51
      [] c = "4" -> 52 [] c = "5" -> 53 [] c = "6" -> 54 [] c = "7" -> 55
      [] c = "8" -> 56 [] c = "9" -> 57 [] c = "S" -> 83 [] c = "|" -> 124
      [] OTHER -> 0

IsDigit(c) == \E d \in 1..10 : Digits[d] = c

DigitValue(c) == (CHOOSE d \in 1..10 : Digits[d] = c) - 1

\* i64 Display: decimal digits without padding
RECURSIVE FormatNat(_)
FormatNat(n) ==
    IF n < 10 THEN <<Digits[n + 1]>>
    ELSE FormatNat(n \div 10) \o <<Digits[(n % 10) + 1]>>

\* str::parse::<i64>() of a non-empty digit string
RECURSIVE ParseNat(_)
ParseNat(s) ==
    IF Len(s) = 1 THEN DigitValue(s[1])
    ELSE 10 * ParseNat(SubSeq(s, 1, Len(s) - 1)) + DigitValue(s[Len(s)])

IsNatString(s) == Len(s) >= 1 /\ \A i \in 1..Len(s) : IsDigit(s[i])

\* str::starts_with
StartsWith(s, p) == Len(p) <= Len(s) /\ SubSeq(s, 1, Len(p)) = p

\* str::split("|").collect::<Vec<&str>>()
RECURSIVE Split(_)
Split(s) ==
    IF \A i \in 1..Len(s) : s[i] # Pipe THEN <<s>>
    ELSE LET i == CHOOSE j \in 1..Len(s) :
                      s[j] = Pipe /\ \A k \in 1..(j - 1) : s[k] # Pipe
         IN  <<SubSeq(s, 1, i - 1)>> \o Split(SubSeq(s, i + 1, Len(s)))

\* position of the last '|' of s, 0 when there is none
LastPipe(s) ==
    IF \A i \in 1..Len(s) : s[i] # Pipe THEN 0
    ELSE CHOOSE j \in 1..Len(s) :
             s[j] = Pipe /\ \A k \in (j + 1)..Len(s) : s[k] # Pipe

\* byte-wise string order (Ord for str; ORDER BY name; sorted-set ties)
RECURSIVE StrLess(_, _)
StrLess(a, b) ==
    IF Len(b) = 0 THEN FALSE
    ELSE IF Len(a) = 0 THEN TRUE
    ELSE IF CharCode(a[1]) # CharCode(b[1]) THEN CharCode(a[1]) < CharCode(b[1])
    ELSE StrLess(Tail(a), Tail(b))

Range(f) == {f[i] : i \in DOMAIN f}

Space == " "

Star == "*"

\* str::trim, for the whitespace that occurs (the space)
RECURSIVE trim_start(_)
trim_start(s) ==
    IF Len(s) > 0 /\ s[1] = Space THEN trim_start(Tail(s)) ELSE s

RECURSIVE trim_end(_)
trim_end(s) ==
    IF Len(s) > 0 /\ s[Len(s)] = Space
    THEN trim_end(SubSeq(s, 1, Len(s) - 1))
    ELSE s

trim(s) == trim_end(trim_start(s))

\* str::split(c).collect::<Vec<&str>>()
RECURSIVE split(_, _)
split(s, c) ==
    IF \A i \in 1..Len(s) : s[i] # c THEN <<s>>
    ELSE LET i == CHOOSE j \in 1..Len(s) :
                      s[j] = c /\ \A k \in 1..(j - 1) : s[k] # c
         IN  <<SubSeq(s, 1, i - 1)>> \o split(SubSeq(s, i + 1, Len(s)), c)

NonEmpty(w) == Len(w) > 0

\* str::split_whitespace().collect::<Vec<&str>>()
split_whitespace(s) == SelectSeq(split(s, Space), NonEmpty)

\* Result<T, E>
Ok(v) == [ok |-> TRUE, value |-> v]

Err(e) == [ok |-> FALSE, error |-> e]

\* Option<T>::unwrap_or
unwrap_or(option, default) == IF Len(option) = 0 THEN default ELSE option[1]

Least(set) == CHOOSE x \in set : \A y \in set : x <= y

-----------------------------------------------------------------------------
(* The relational store.                                                   *)

S1 == <<"S", "1">>
S10 == <<"S", "1", "0">>

\* the ids of `tabBTU Task Schedule` rows that exist or may be asked for
Ids == {S1, S10}

\* rows whose cron_string has four fields (S4) and a minute 61 (S5)
S4 == <<"S", "4">>
S5 == <<"S", "5">>

DbStates == {"absent", "disabled", "enabled"}


\* column cron_string of a row
EverySecondSecond == <<"*", "/", "2", " ", "*", " ", "*", " ", "*", " ", "*", " ", "*", " ", "*">>

EverySecondSecondOfEachHour == <<"*", "/", "2", " ", "*", " ", "0", "-", "2", "3", " ", "*", " ", "*", " ", "*", " ", "*">>

FourFields ==
    <<"3", "0", " ", "3", " ", "*", " ", "*">>

MinuteSixtyOne ==
    <<"6", "1", " ", "3", " ", "*", " ", "*", " ", "*">>

CronOf(id) ==
    CASE id = S1 -> EverySecondSecond
      [] id = S4 -> FourFields
      [] id = S5 -> MinuteSixtyOne
      [] OTHER -> EverySecondSecondOfEachHour

QueueNameOf(id) == IF id = S1 THEN "default" ELSE "batch"

\* max_task_duration of the task of the schedule, in seconds
MaxTaskDurationOf(id) == IF id = S1 THEN 600 ELSE 3600

QueueNames == {"default", "batch"}

\* tabSingles BTU Configuration cron_time_zone, as its UTC offset in
\* seconds: the zone the run was started with in `call`, else UTC
cron_timezone ==
    IF call # <<>> /\ "cron_time_zone" \in DOMAIN call
    THEN call.cron_time_zone
    ELSE 0

-----------------------------------------------------------------------------
(* btu_cron.rs                                                             *)

WrongQtyOfElements(n) == [kind |-> "WrongQtyOfElements", found |-> n]

InvalidExpression == [kind |-> "InvalidExpression"]

\* cron_str_to_cron_str7, had it left the year off a five-field expression
cron_str_to_cron_str7_no_year(cron_expression_string) ==
    LET vec == split_whitespace(trim(cron_expression_string))
    IN  CASE Len(vec) = 5 -> Ok(<<"0", Space>> \o cron_expression_string)
          [] Len(vec) = 6 -> Ok(<<"0", Space>> \o cron_expression_string)
          [] Len(vec) = 7 -> Ok(cron_expression_string)
          [] OTHER -> Err(WrongQtyOfElements(Len(vec)))

cron_str_to_cron_str7(cron_expression_string) ==
    LET vec == split_whitespace(trim(cron_expression_string))
    IN  CASE Len(vec) = 5 ->
               Ok(<<"0", Space>> \o cron_expression_string \o <<Space, Star>>)
          [] Len(vec) = 6 -> Ok(<<"0", Space>> \o cron_expression_string)
          [] Len(vec) = 7 -> Ok(cron_expression_string)
          [] OTHER -> Err(WrongQtyOfElements(Len(vec)))

nonwildcard_or_none(element) ==
    IF element = <<Star>> THEN <<>> ELSE <<element>>

\* impl FromStr for CronStruct
CronStruct_from_str(s) ==
    LET cron7_expression == cron_str_to_cron_str7(s)
        vector_cron7 == split(cron7_expression.value, Space)
    IN  IF ~cron7_expression.ok THEN cron7_expression
        ELSE Ok([second       |-> nonwildcard_or_none(vector_cron7[1]),
                 minute       |-> nonwildcard_or_none(vector_cron7[2]),
                 hour         |-> nonwildcard_or_none(vector_cron7[3]),
                 day_of_month |-> nonwildcard_or_none(vector_cron7[4]),
                 month        |-> nonwildcard_or_none(vector_cron7[5]),
                 day_of_week  |-> nonwildcard_or_none(vector_cron7[6]),
                 year         |-> nonwildcard_or_none(vector_cron7[7])])

\* CronStruct::to_string
CronStruct_to_string(self) ==
    unwrap_or(self.second, <<Star>>) \o <<Space>>
      \o unwrap_or(self.minute, <<Star>>) \o <<Space>>
      \o unwrap_or(self.hour, <<Star>>) \o <<Space>>
      \o unwrap_or(self.day_of_month, <<Star>>) \o <<Space>>
      \o unwrap_or(self.month, <<Star>>) \o <<Space>>
      \o unwrap_or(self.day_of_week, <<Star>>) \o <<Space>>
      \o unwrap_or(self.year, <<Star>>)

-----------------------------------------------------------------------------
(* The cron crate, as btu_cron.rs uses it: Schedule::from_str of a seven-  *)
(* field expression and Schedule::after.  Fields are lists of "*", "?",    *)
(* a value, a range a-b, each with an optional step /k; days of the week   *)
(* are 1 (Sun) to 7 (Sat) or their three-letter names.                     *)

\* the calendar days the model follows: 2021-12-25 (a Saturday) and the
\* HorizonDays days after it
HorizonDays == 7

DayOfWeekNames ==
    <<<<"S", "u", "n">>,
      <<"M", "o", "n">>,
      <<"T", "u", "e">>,
      <<"W", "e", "d">>,
      <<"T", "h", "u">>,
      <<"F", "r", "i">>,
      <<"S", "a", "t">>>>

NoNames == <<>>

\* the date of day d of the clock
DateOf(d) ==
    [year         |-> IF d <= 6 THEN 2021 ELSE 2022,
     month        |-> IF d <= 6 THEN 12 ELSE 1,
     day_of_month |-> IF d <= 6 THEN 25 + d ELSE d - 6,
     day_of_week  |-> ((d + 6) % 7) + 1]

\* a value of a field: a number or a name
OrdinalOf(token, names) ==
    IF IsNatString(token) THEN ParseNat(token)
    ELSE CHOOSE i \in 1..Len(names) : names[i] = token

\* the values one item of a field stands for, within lo..hi
ItemValues(item, lo, hi, names) ==
    LET parts == split(item, "/")
        base  == parts[1]
        step  == IF Len(parts) = 2 THEN ParseNat(parts[2]) ELSE 1
        ends  == split(base, "-")
        first == IF base = <<Star>> \/ base = <<"?">> THEN lo
                 ELSE OrdinalOf(ends[1], names)
        last  == IF base = <<Star>> \/ base = <<"?">> THEN hi
                 ELSE IF Len(ends) = 2 THEN OrdinalOf(ends[2], names)
                 ELSE IF Len(parts) = 2 THEN hi
                 ELSE first
    IN  {x \in first..last : x >= lo /\ x <= hi /\ (x - first) % step = 0}

\* FieldValues, had it read the first item of a list only
\* whether the cron crate accepts the item
ValidItem(item, lo, hi, names) ==
    LET parts == split(item, "/")
        base  == parts[1]
        ends  == split(base, "-")
        IsValue(token) ==
            \/ IsNatString(token) /\ ParseNat(token) \in lo..hi
            \/ \E i \in 1..Len(names) : names[i] = token
    IN  /\ Len(parts) <= 2
        /\ Len(parts) = 2 => IsNatString(parts[2]) /\ ParseNat(parts[2]) > 0
        /\ \/ base = <<Star>>
           \/ base = <<"?">>
           \/ /\ Len(ends) <= 2
              /\ \A i \in 1..Len(ends) : IsValue(ends[i])
              /\ Len(ends) = 2 =>
                    OrdinalOf(ends[1], names) <= OrdinalOf(ends[2], names)

ValidField(field, lo, hi, names) ==
    LET items == split(field, ",")
    IN  \A i \in 1..Len(items) : ValidItem(items[i], lo, hi, names)

FieldValues_first_item(field, lo, hi, names) ==
    LET items == split(field, ",")
    IN  ItemValues(items[1], lo, hi, names)

FieldValues(field, lo, hi, names) ==
    LET items == split(field, ",")
    IN  UNION {ItemValues(items[i], lo, hi, names) : i \in 1..Len(items)}

\* the ranges and the names of the seven fields: seconds, minutes, hours,
\* days of the month, months, days of the week, years
FieldMin == <<0, 0, 0, 1, 1, 1, 1970>>
FieldMax == <<59, 59, 23, 31, 12, 7, 2100>>
FieldNames == <<NoNames, NoNames, NoNames, NoNames, NoNames, DayOfWeekNames, NoNames>>

\* Schedule::from_str: the seconds, minutes and hours of the day and the
\* days of the calendar on which the expression fires, or an error
Schedule_from_str(expression) ==
    LET f      == split_whitespace(expression)
        fields == IF Len(f) = 6 THEN Append(f, <<Star>>) ELSE f
        values == [k \in 1..7 |->
                     FieldValues(fields[k], FieldMin[k], FieldMax[k], FieldNames[k])]
    IN  IF \/ Len(f) \notin {6, 7}
           \/ \E k \in 1..7 :
                 ~ValidField(fields[k], FieldMin[k], FieldMax[k], FieldNames[k])
        THEN Err([kind |-> "cron::error::Error"])
        ELSE Ok([seconds |-> values[1],
                 minutes |-> values[2],
                 hours   |-> values[3],
                 days    |-> {d \in 0..HorizonDays :
                                /\ DateOf(d).day_of_month \in values[4]
                                /\ DateOf(d).month \in values[5]
                                /\ DateOf(d).day_of_week \in values[6]
                                /\ DateOf(d).year \in values[7]}])

Timestamp(d, h, m, sec) == ((d * 24 + h) * 60 + m) * 60 + sec

\* the first instant of the schedule strictly after from, if any
ScheduleNext(schedule, from) ==
    LET t  == from + 1
        d  == t \div 86400
        h  == (t \div 3600) % 24
        m  == (t \div 60) % 60
        ss == {x \in schedule.seconds : x >= t % 60}
        ms == {x \in schedule.minutes : x > m}
        hs == {x \in schedule.hours : x > h}
        ds == {x \in schedule.days : x > d}
        s0 == Least(schedule.seconds)
        m0 == Least(schedule.minutes)
        h0 == Least(schedule.hours)
    IN  IF \/ schedule.seconds = {} \/ schedule.minutes = {}
           \/ schedule.hours = {} \/ schedule.days = {}
        THEN <<>>
        ELSE IF d \in schedule.days /\ h \in schedule.hours
                /\ m \in schedule.minutes /\ ss # {}
        THEN <<Timestamp(d, h, m, Least(ss))>>
        ELSE IF d \in schedule.days /\ h \in schedule.hours /\ ms # {}
        THEN <<Timestamp(d, h, Least(ms), s0)>>
        ELSE IF d \in schedule.days /\ hs # {}
        THEN <<Timestamp(d, Least(hs), m0, s0)>>
        ELSE IF ds # {}
        THEN <<Timestamp(Least(ds), h0, m0, s0)>>
        ELSE <<>>

\* Schedule::after(from).take(n): the next n UTC instants strictly after
\* from, fewer when the schedule ends
RECURSIVE ScheduleAfter(_, _, _)
ScheduleAfter(schedule, from, n) ==
    LET next == ScheduleNext(schedule, from)
    IN  IF n = 0 \/ next = <<>> THEN <<>>
        ELSE next \o ScheduleAfter(schedule, next[1], n - 1)

-----------------------------------------------------------------------------
(* btu_cron.rs: tz_cron_to_utc_datetimes                                   *)

\* The expressions that are evaluated: those of tests.rs
\* (test_2_simple_local_cron, test_simple_local_cron and
\* test_multi_day_cron2 with minute 30), a daily one, and those of the
\* rows.
EveryHalfHour ==
    <<"*", "/", "3", "0", " ", "*", " ", "*", " ", "*", " ", "*">>

EveryTenMinutesOfOneHour ==
    <<"0", " ", "*", "/", "1", "0", " ", "1", " ", "2", "5", " ", "1", "2", " ", "*", " ", "2", "0", "2", "1">>

SomeDaysAtHalfPastThree ==
    <<"3", "0", " ", "3", " ", "*", " ", "*", " ", "S", "u", "n", "-", "W", "e", "d", ",", "S", "a", "t">>

DailyAtHalfPastThree ==
    <<"3", "0", " ", "3", " ", "*", " ", "*", " ", "*">>

CronExpressions ==
    {EveryHalfHour, EveryTenMinutesOfOneHour, SomeDaysAtHalfPastThree,
     DailyAtHalfPastThree, FourFields, MinuteSixtyOne, EverySecondSecond,
     EverySecondSecondOfEachHour}

\* impl FromStr for CronStruct and Schedule::from_str do not depend on the
\* time of the call: each expression is parsed once
CronStructOf == [e \in CronExpressions |-> CronStruct_from_str(e)]

ScheduleOf ==
    [e \in {x \in CronExpressions : CronStructOf[x].ok} |->
        Schedule_from_str(CronStruct_to_string(CronStructOf[e].value))]

\* chrono_tz::Tz, as the offset of local time from UTC in seconds in the
\* days the model follows (no zone changes its offset in them)
America_Los_Angeles == 0 - 28800

UTC == 0

Europe_Berlin == 3600

Timezones == {America_Los_Angeles, UTC, Europe_Berlin}

\* the outcome of a call in which unwrap() met Err or None
Panicked == Err([kind |-> "panic"])

\* cron_timezone.from_local_datetime(naive).unwrap(), as a UTC timestamp:
\* the wall-clock reading of naive, taken as a time of the zone
from_local_datetime(timezone, naive) == naive - timezone

\* tz_cron_to_utc_datetimes, had it taken every expression in the zone
tz_cron_to_utc_datetimes_all_local(cron_expression_string, timezone, from_utc_datetime, number_of_results) ==
    LET this_cronstruct == CronStructOf[cron_expression_string]
        schedule == ScheduleOf[cron_expression_string]
        utc == ScheduleAfter(schedule.value, from_utc_datetime, number_of_results)
    IN  IF ~this_cronstruct.ok THEN Err(InvalidExpression)
        ELSE IF ~schedule.ok THEN Panicked
        ELSE Ok([i \in 1..Len(utc) |-> from_local_datetime(timezone, utc[i])])

\* tz_cron_to_utc_datetimes, had it taken every expression in UTC
tz_cron_to_utc_datetimes_all_utc(cron_expression_string, timezone, from_utc_datetime, number_of_results) ==
    LET this_cronstruct == CronStructOf[cron_expression_string]
        schedule == ScheduleOf[cron_expression_string]
        utc == ScheduleAfter(schedule.value, from_utc_datetime, number_of_results)
    IN  IF ~this_cronstruct.ok THEN Err(InvalidExpression)
        ELSE IF ~schedule.ok THEN Panicked
        ELSE Ok(utc)

tz_cron_to_utc_datetimes(cron_expression_string, timezone, from_utc_datetime, number_of_results) ==
    LET this_cronstruct == CronStructOf[cron_expression_string]
        schedule == ScheduleOf[cron_expression_string]
        utc == ScheduleAfter(schedule.value, from_utc_datetime, number_of_results)
    IN  IF ~this_cronstruct.ok THEN Err(InvalidExpression)
        ELSE IF ~schedule.ok THEN Panicked
        ELSE IF Len(this_cronstruct.value.hour) = 0 THEN Ok(utc)
        ELSE Ok([i \in 1..Len(utc) |-> from_local_datetime(timezone, utc[i])])

-----------------------------------------------------------------------------
(* scheduler.rs: TSIK and RQScheduledTask                                  *)

TSIK_task_schedule_id(tsik) == Split(tsik)[1]

TSIK_next_unix_datetime(tsik) == ParseNat(Split(tsik)[2])

to_tsik(task) ==
    task.task_schedule_id \o <<Pipe>> \o FormatNat(task.next_datetime_unix)

from_tsik(tsik) ==
    [task_schedule_id |-> TSIK_task_schedule_id(tsik),
     next_datetime_unix |-> TSIK_next_unix_datetime(tsik)]

\* RQScheduledTask::from_tsik as a call: indexing the pieces past their
\* end and parse::<i64>().unwrap() of a piece that is no number panic
RQScheduledTask_from_tsik(tsik) ==
    IF Len(Split(tsik)) < 2 THEN Panicked
    ELSE IF ~IsNatString(Split(tsik)[2]) THEN Panicked
    ELSE Ok(from_tsik(tsik))

\* RQScheduledTask::from((id, timestamp string)), through
\* _from_tuple_to_rqscheduledtask
RQScheduledTask_from_tuple(id, timestamp) ==
    IF ~IsNatString(timestamp) THEN Panicked
    ELSE Ok([task_schedule_id |-> id, next_datetime_unix |-> ParseNat(timestamp)])

-----------------------------------------------------------------------------
(* Redis commands on the sorted set: a set of [member, score] records with *)
(* at most one record per member.                                          *)

Members(idx) == {e.member : e \in idx}

ZADD(idx, member, score) ==
    {e \in idx : e.member # member} \cup {[member |-> member, score |-> score]}

ZREM(idx, member) == {e \in idx : e.member # member}

ZREM_count(idx, member) == IF member \in Members(idx) THEN 1 ELSE 0

EntryLess(a, b) ==
    \/ a.score < b.score
    \/ a.score = b.score /\ StrLess(a.member, b.member)

\* the entries of a sorted set in its order: by score, ties by member
RECURSIVE Sorted(_)
Sorted(idx) ==
    IF idx = {} THEN <<>>
    ELSE LET first == CHOOSE e \in idx : \A o \in idx \ {e} : EntryLess(e, o)
         IN  <<first>> \o Sorted(idx \ {first})

ZRANGE_all(idx) == [i \in 1..Cardinality(idx) |-> Sorted(idx)[i].member]

ZRANGEBYSCORE(idx, min, max) ==
    LET hit == Sorted({e \in idx : min <= e.score /\ e.score <= max})
    IN  [i \in 1..Len(hit) |-> hit[i].member]


-----------------------------------------------------------------------------
(* Values of the thread-local variables.                                   *)

FullRefresh == 1

NoId == <<>>

\* no library function is being called on its own
NoCall == <<>>

NoFiring ==
    [task_schedule_id |-> NoId, next_datetime_unix |-> 0, zrem |-> 0 - 1,
     schedule |-> "unread", job |-> 0]

\* FrappeClientMessage as read from the stream: utf8 and json tell whether
\* the bytes decode and deserialize, request_content is an Option (a
\* sequence of length 0 or 1), write_ok whether write_all can succeed
Req(type, content, wok) ==
    [utf8 |-> TRUE, json |-> TRUE, request_type |-> type,
     request_content |-> content, write_ok |-> wok]

Contents == {<<>>} \cup {<<id>> : id \in Ids}

GoodRequests ==
    {Req("ping", <<>>, TRUE), Req("frobnicate", <<>>, TRUE)}
    \cup {Req(t, c, TRUE) : t \in {"create_task_schedule", "cancel_task_schedule"},
                            c \in Contents}

BadRequests ==
    {[Req("", <<>>, TRUE) EXCEPT !.utf8 = FALSE, !.json = FALSE],
     [Req("", <<>>, TRUE) EXCEPT !.json = FALSE]}
    \cup {Req("ping", <<>>, FALSE), Req("frobnicate", <<>>, FALSE)}
    \cup {Req(t, <<id>>, FALSE) : t \in {"create_task_schedule", "cancel_task_schedule"},
                                  id \in Ids}

NoRequest == Req("", <<>>, TRUE)

\* written: the text sent to the client; result: how handle_client_request
\* ended ("Ok", "Err" or "panic")
Reply(written, result) == [written |-> written, result |-> result]

NoReply == Reply("", "none")

PONG == "pong"
CREATED == "BTU Scheduler now re-processing Task Schedule"
CANCELLED == "Successfully cancelled BTU Task Schedule"
UNHANDLED == "Client message has an unhandled 'request_type'"

-----------------------------------------------------------------------------
(* Mutexes: who holds them follows from where the threads are.             *)

QueueFree ==
    /\ dpc # "popped"
    /\ rpc \notin {"refill", "print"}
    /\ kpc \notin {"haveQ", "firing", "polled"}

ConfigFree == kpc \notin {"firing", "polled"} /\ hpc \notin {"waitQ", "replied"}

\* the state when main() has spawned its threads at the instant `start`,
\* for the table `rows`
SpawnedAt(rows, start) ==
    /\ now = start
    /\ db = rows
    /\ redisUp = TRUE
    /\ sqlUp = TRUE
    /\ internal_queue = <<>>
    /\ queuePoisoned = FALSE
    /\ configPoisoned = FALSE
    /\ index = {}
    /\ jobs = {}
    /\ queues = [q \in QueueNames |-> <<>>]
    /\ registry = {}
    /\ uuid = 0
    /\ mpc = "refill"
    /\ dpc = "idle"
    /\ next_task_schedule_id = NoId
    /\ rpc = "idle"
    /\ stopwatch = start
    /\ kpc = "idle"
    /\ ripe = <<>>
    /\ fired = NoFiring
    /\ hpc = "none"
    /\ hreq = NoRequest
    /\ hreply = NoReply

\* the same at the start of the model's clock
Spawned(rows) == SpawnedAt(rows, 0)

InitWith(rows) ==
    /\ Spawned(rows)
    /\ call = NoCall
    /\ returned = NoCall

Init == InitWith([id \in Ids |-> "enabled"])

-----------------------------------------------------------------------------
(* The environment: the clock, the web application editing rows, Redis.    *)

\* last: the last instant the model follows
TickUpTo(last) ==
    /\ now < last
    /\ now' = now + 1
    /\ UNCHANGED <<db, redisUp, internal_queue, queuePoisoned, configPoisoned,
                   index, jobs, queues, registry, uuid, mpc, dpc,
                   next_task_schedule_id, rpc, stopwatch, kpc, ripe, fired,
                   hpc, hreq, hreply>>
    /\ UNCHANGED <<call, returned, sqlUp>>

Tick == TickUpTo(MaxTime)

DbEdit ==
    /\ \E id \in Ids, v \in DbStates :
          /\ db[id] # v
          /\ db' = [db EXCEPT ![id] = v]
    /\ UNCHANGED <<now, redisUp, internal_queue, queuePoisoned, configPoisoned,
                   index, jobs, queues, registry, uuid, mpc, dpc,
                   next_task_schedule_id, rpc, stopwatch, kpc, ripe, fired,
                   hpc, hreq, hreply>>
    /\ UNCHANGED <<call, returned, sqlUp>>

RedisToggle ==
    /\ redisUp' = ~redisUp
    /\ UNCHANGED <<now, db, internal_queue, queuePoisoned, configPoisoned,
                   index, jobs, queues, registry, uuid, mpc, dpc,
                   next_task_schedule_id, rpc, stopwatch, kpc, ripe, fired,
                   hpc, hreq, hreply>>
    /\ UNCHANGED <<call, returned, sqlUp>>

\* the SQL server goes away or comes back
SqlToggle ==
    /\ sqlUp' = ~sqlUp
    /\ UNCHANGED <<now, db, redisUp, internal_queue, queuePoisoned,
                   configPoisoned, index, jobs, queues, registry, uuid, mpc,
                   dpc, next_task_schedule_id, rpc, stopwatch, kpc, ripe,
                   fired, hpc, hreq, hreply>>
    /\ UNCHANGED <<call, returned>>

\* the Redis database is flushed or emptied (daemon.rs, comment of thread 2)
RedisFlush ==
    /\ redisUp
    /\ index # {} \/ jobs # {}
    /\ index' = {}
    /\ jobs' = {}
    /\ queues' = [q \in QueueNames |-> <<>>]
    /\ registry' = {}
    /\ UNCHANGED <<now, db, redisUp, internal_queue, queuePoisoned,
                   configPoisoned, uuid, mpc, dpc, next_task_schedule_id, rpc,
                   stopwatch, kpc, ripe, fired, hpc, hreq, hreply>>
    /\ UNCHANGED <<call, returned, sqlUp>>


-----------------------------------------------------------------------------
(* SQL reads (lib.rs, daemon.rs).                                          *)

\* SELECT ... WHERE TaskSchedule.name = id LIMIT 1: "absent" stands for None
read_btu_task_schedule(rows, id) ==
    IF id \in DOMAIN rows THEN rows[id] ELSE "absent"

\* a set of ids as the sequence ORDER BY name yields
RECURSIVE OrderByName(_)
OrderByName(ids) ==
    IF ids = {} THEN <<>>
    ELSE LET first == CHOOSE a \in ids : \A b \in ids \ {a} : StrLess(a, b)
         IN  <<first>> \o OrderByName(ids \ {first})

\* SELECT name FROM `tabBTU Task Schedule` WHERE enabled = 1 ORDER BY name,
\* each row pushed at the back of the queue
queue_full_refill(queue, rows) ==
    queue \o OrderByName({id \in DOMAIN rows : rows[id] = "enabled"})

-----------------------------------------------------------------------------
(* scheduler.rs                                                            *)

\* BtuTaskSchedule::next_runtimes(&None, &n), an Option: the instants the
\* projector returns for the row of id, None when it returns an error or
\* no instant
NonEmptyOk(result) ==
    IF result.ok /\ Len(result.value) > 0 THEN <<result.value>> ELSE <<>>

BtuTaskSchedule_next_runtimes(id, time, n) ==
    NonEmptyOk(tz_cron_to_utc_datetimes(CronOf(id), cron_timezone, time, n))

\* the projection for the row of id ends in a panic
ProjectionPanics(id, time) ==
    tz_cron_to_utc_datetimes(CronOf(id), cron_timezone, time, 1) = Panicked

\* add_task_schedule_to_rq, had it used the id alone as the member
add_task_schedule_to_rq_member_id(idx, id, time, redis) ==
    LET next_runtimes == BtuTaskSchedule_next_runtimes(id, time, 1)
    IN  IF next_runtimes = <<>> THEN idx
        ELSE IF ~redis THEN idx
        ELSE ZADD(idx, id, next_runtimes[1][1])

\* add_task_schedule_to_rq, had it passed the time of the call as the score
add_task_schedule_to_rq_score_now(idx, id, time, redis) ==
    LET next_runtimes == BtuTaskSchedule_next_runtimes(id, time, 1)
        rq_scheduled_task == [task_schedule_id |-> id,
                              next_datetime_unix |-> next_runtimes[1][1]]
    IN  IF next_runtimes = <<>> THEN idx
        ELSE IF ~redis THEN idx
        ELSE ZADD(idx, to_tsik(rq_scheduled_task), time)

\* add_task_schedule_to_rq, had it taken the second of two projected times
add_task_schedule_to_rq_second_runtime(idx, id, time, redis) ==
    LET next_runtimes == BtuTaskSchedule_next_runtimes(id, time, 2)
        rq_scheduled_task == [task_schedule_id |-> id,
                              next_datetime_unix |-> next_runtimes[1][2]]
    IN  IF next_runtimes = <<>> THEN idx
        ELSE IF ~redis THEN idx
        ELSE ZADD(idx, to_tsik(rq_scheduled_task),
                  rq_scheduled_task.next_datetime_unix)

\* the sorted set after add_task_schedule_to_rq for the row of id
add_task_schedule_to_rq(idx, id, time, redis) ==
    LET next_runtimes == BtuTaskSchedule_next_runtimes(id, time, 1)
        rq_scheduled_task == [task_schedule_id |-> id,
                              next_datetime_unix |-> next_runtimes[1][1]]
    IN  IF next_runtimes = <<>> THEN idx
        ELSE IF ~redis THEN idx
        ELSE ZADD(idx, to_tsik(rq_scheduled_task),
                  rq_scheduled_task.next_datetime_unix)

\* fetch_task_schedules_ready_for_rq, had it asked for the members of the
\* last second only
fetch_task_schedules_ready_for_rq_last_second(idx, sched_before_unix_time, redis) ==
    IF ~redis THEN <<>>
    ELSE LET zranges == ZRANGEBYSCORE(idx, sched_before_unix_time - 1,
                                      sched_before_unix_time)
         IN  [i \in 1..Len(zranges) |-> from_tsik(zranges[i])]

fetch_task_schedules_ready_for_rq(idx, sched_before_unix_time, redis) ==
    IF ~redis THEN <<>>
    ELSE LET zranges == ZRANGEBYSCORE(idx, 0, sched_before_unix_time)
         IN  [i \in 1..Len(zranges) |-> from_tsik(zranges[i])]

\* run_immediate_scheduled_task, had it not tested the column 'enabled'
run_immediate_scheduled_task_any_enabled(inst, idx, rows, redis) ==
    IF ~redis
    THEN [index |-> idx, zrem |-> 0 - 1, schedule |-> "unread", dispatch |-> FALSE]
    ELSE LET redis_result == ZREM_count(idx, to_tsik(inst))
             task_schedule == read_btu_task_schedule(rows, inst.task_schedule_id)
         IN  [index |-> ZREM(idx, to_tsik(inst)),
              zrem |-> redis_result,
              schedule |-> task_schedule,
              dispatch |-> task_schedule # "absent"]

\* run_immediate_scheduled_task, had it gone on without a connection
run_immediate_scheduled_task_unconnected(inst, idx, rows, redis) ==
    LET redis_result == ZREM_count(idx, to_tsik(inst))
        task_schedule == read_btu_task_schedule(rows, inst.task_schedule_id)
    IN  [index |-> ZREM(idx, to_tsik(inst)),
         zrem |-> redis_result,
         schedule |-> task_schedule,
         dispatch |-> task_schedule = "enabled"]

\* steps 0 to 2 of run_immediate_scheduled_task: the sorted set afterwards,
\* the reply of ZREM (-1: not sent), the row read, and whether steps 3 to 6
\* (job record, queue push, re-queue of the id) are run
run_immediate_scheduled_task(inst, idx, rows, redis) ==
    IF ~redis
    THEN [index |-> idx, zrem |-> 0 - 1, schedule |-> "unread", dispatch |-> FALSE]
    ELSE LET redis_result == ZREM_count(idx, to_tsik(inst))
             task_schedule == read_btu_task_schedule(rows, inst.task_schedule_id)
         IN  [index |-> ZREM(idx, to_tsik(inst)),
              zrem |-> redis_result,
              schedule |-> task_schedule,
              dispatch |-> task_schedule = "enabled"]

\* the loop of rq_cancel_scheduled_task over the rows of ZRANGE 0 -1
RECURSIVE CancelLoop(_, _, _, _, _)
CancelLoop(rows, idx, task_schedule_id, removed, count) ==
    IF rows = <<>> THEN [index |-> idx, removed |-> removed, count |-> count]
    ELSE IF StartsWith(Head(rows), task_schedule_id)
    THEN CancelLoop(Tail(rows), ZREM(idx, Head(rows)), task_schedule_id,
                    removed \/ ZREM_count(idx, Head(rows)) = 0,
                    count + ZREM_count(idx, Head(rows)))
    ELSE CancelLoop(Tail(rows), idx, task_schedule_id, removed, count)

rq_cancel_scheduled_task(idx, task_schedule_id) ==
    LET done == CancelLoop(ZRANGE_all(idx), idx, task_schedule_id, FALSE, 0)
    IN  [index |-> done.index,
         count |-> done.count,
         message |-> IF done.removed
                     THEN "Scheduled Task successfully removed from Redis Queue."
                     ELSE "Scheduled Task not found in Redis Queue."]

-----------------------------------------------------------------------------
(* rq.rs and BtuTaskSchedule::to_rq_job                                    *)

\* to_rq_job, had it left `data` as new_with_defaults sets it
to_rq_job_default_data(id, n) ==
    [job_key_short |-> n, origin |-> "default", timeout |-> 600, data |-> NoId]

\* RQJob::new_with_defaults with the data fetched for the schedule; data is
\* named by the schedule the web application pickled it for
to_rq_job(id, n) ==
    [job_key_short |-> n, origin |-> "default", timeout |-> 600, data |-> id]

\* RQJob::save_to_redis: HSET of the fields of the record, `data` included
save_to_redis(records, rq_job) == records \cup {rq_job}

\* read_job_by_id: HGETALL of rq:job:<job_id>, an Err when the hash is empty
read_job_by_id(records, job_id) ==
    IF \E job \in records : job.job_key_short = job_id
    THEN Ok(CHOOSE job \in records : job.job_key_short = job_id)
    ELSE Err("does not exist in the RQ database")

\* enqueue_job_immediate, had it pushed the id after a failed SADD
enqueue_job_immediate_sadd_ignored(records, reg, lists, job_id, sadd_ok, rpush_ok) ==
    LET job == read_job_by_id(records, job_id)
    IN  IF ~job.ok
        THEN [registry |-> reg, queues |-> lists, ok |-> FALSE]
        ELSE IF ~rpush_ok
        THEN [registry |-> IF sadd_ok THEN reg \cup {job.value.origin} ELSE reg,
              queues |-> lists, ok |-> FALSE]
        ELSE [registry |-> IF sadd_ok THEN reg \cup {job.value.origin} ELSE reg,
              queues |-> [lists EXCEPT ![job.value.origin] = Append(@, job_id)],
              ok |-> TRUE]

\* enqueue_job_immediate, had it pushed the id without reading the record
enqueue_job_immediate_unread(records, reg, lists, job_id, sadd_ok, rpush_ok) ==
    IF ~sadd_ok
    THEN [registry |-> reg, queues |-> lists, ok |-> FALSE]
    ELSE IF ~rpush_ok
    THEN [registry |-> reg \cup {"default"}, queues |-> lists, ok |-> FALSE]
    ELSE [registry |-> reg \cup {"default"},
          queues |-> [lists EXCEPT !["default"] = Append(@, job_id)],
          ok |-> TRUE]

\* enqueue_job_immediate: the set rq:queues and the lists rq:queue:<name>
\* afterwards and whether it returned Ok; sadd_ok and rpush_ok tell whether
\* Redis answers the two commands
enqueue_job_immediate(records, reg, lists, job_id, sadd_ok, rpush_ok) ==
    LET job == read_job_by_id(records, job_id)
    IN  IF ~job.ok
        THEN [registry |-> reg, queues |-> lists, ok |-> FALSE]
        ELSE IF ~sadd_ok
        THEN [registry |-> reg, queues |-> lists, ok |-> FALSE]
        ELSE IF ~rpush_ok
        THEN [registry |-> reg \cup {job.value.origin}, queues |-> lists,
              ok |-> FALSE]
        ELSE [registry |-> reg \cup {job.value.origin},
              queues |-> [lists EXCEPT ![job.value.origin] = Append(@, job_id)],
              ok |-> TRUE]


-----------------------------------------------------------------------------
(* Main thread: the refill at startup, before the listener is created.     *)

\* the probe of Redis: without a connection main() exits with status 1
\* unless startup_without_database_connections is set; `returned` collects
\* what the probes found
M_ProbeRedis ==
    /\ mpc = "probe_redis"
    /\ returned' = Append(returned, redisUp)
    /\ mpc' = IF ~redisUp /\ ~call.startup_without_database_connections
              THEN "exited" ELSE "probe_sql"
    /\ UNCHANGED <<now, db, redisUp, internal_queue, queuePoisoned,
                   configPoisoned, index, jobs, queues, registry, uuid, dpc,
                   next_task_schedule_id, rpc, stopwatch, kpc, ripe, fired,
                   hpc, hreq, hreply>>
    /\ UNCHANGED <<call, sqlUp>>

\* validate_sql_credentials, had main() exited on its error in any case
M_ProbeSql_exit_always ==
    /\ mpc = "probe_sql"
    /\ returned' = Append(returned, sqlUp)
    /\ mpc' = IF ~sqlUp THEN "exited" ELSE "spawn"
    /\ UNCHANGED <<now, db, redisUp, internal_queue, queuePoisoned,
                   configPoisoned, index, jobs, queues, registry, uuid, dpc,
                   next_task_schedule_id, rpc, stopwatch, kpc, ripe, fired,
                   hpc, hreq, hreply>>
    /\ UNCHANGED <<call, sqlUp>>

\* the probe of SQL, validate_sql_credentials, with the same rule
M_ProbeSql ==
    /\ mpc = "probe_sql"
    /\ returned' = Append(returned, sqlUp)
    /\ mpc' = IF ~sqlUp /\ ~call.startup_without_database_connections
              THEN "exited" ELSE "spawn"
    /\ UNCHANGED <<now, db, redisUp, internal_queue, queuePoisoned,
                   configPoisoned, index, jobs, queues, registry, uuid, dpc,
                   next_task_schedule_id, rpc, stopwatch, kpc, ripe, fired,
                   hpc, hreq, hreply>>
    /\ UNCHANGED <<call, sqlUp>>

\* the three worker threads are spawned, thread 2 starting its stopwatch
M_Spawn ==
    /\ mpc = "spawn"
    /\ dpc' = "idle"
    /\ rpc' = "idle"
    /\ kpc' = "idle"
    /\ stopwatch' = now
    /\ mpc' = "refill"
    /\ UNCHANGED <<now, db, redisUp, internal_queue, queuePoisoned,
                   configPoisoned, index, jobs, queues, registry, uuid,
                   next_task_schedule_id, ripe, fired, hpc, hreq, hreply>>
    /\ UNCHANGED <<call, returned, sqlUp>>

\* cap: the longest queue the model follows; an Err of queue_full_refill
\* (no SQL connection) is logged as a warning and main() goes on; lock()
\* of a poisoned mutex is unwrapped, and a panic of main() ends the process
M_RefillUpTo(cap) ==
    /\ mpc = "refill"
    /\ QueueFree /\ ConfigFree
    /\ IF queuePoisoned \/ configPoisoned
       THEN /\ mpc' = "dead"
            /\ dpc' = "exited"
            /\ rpc' = "exited"
            /\ kpc' = "exited"
            /\ UNCHANGED internal_queue
       ELSE /\ Len(queue_full_refill(internal_queue, db)) <= cap
            /\ internal_queue' = IF sqlUp
                                 THEN queue_full_refill(internal_queue, db)
                                 ELSE internal_queue
            /\ mpc' = "listen"
            /\ UNCHANGED <<dpc, rpc, kpc>>
    /\ UNCHANGED <<now, db, redisUp, queuePoisoned, configPoisoned, index,
                   jobs, queues, registry, uuid, next_task_schedule_id,
                   stopwatch, ripe, fired, hpc, hreq, hreply>>
    /\ UNCHANGED <<call, returned, sqlUp>>

M_Refill == M_RefillUpTo(MaxQueue)

-----------------------------------------------------------------------------
(* Thread 1_Internal_Queue.  The guard of the queue lives until the end of *)
(* the `if let` block, so the queue stays locked from D_Pop to D_Process.  *)

\* the pop of thread 1, had it been pop_back
D_Pop_back ==
    /\ dpc = "idle"
    /\ QueueFree /\ ~queuePoisoned
    /\ internal_queue # <<>>
    /\ next_task_schedule_id' = internal_queue[Len(internal_queue)]
    /\ internal_queue' = SubSeq(internal_queue, 1, Len(internal_queue) - 1)
    /\ dpc' = "popped"
    /\ UNCHANGED <<now, db, redisUp, queuePoisoned, configPoisoned, index,
                   jobs, queues, registry, uuid, mpc, rpc, stopwatch, kpc,
                   ripe, fired, hpc, hreq, hreply>>
    /\ UNCHANGED <<call, returned, sqlUp>>

D_Pop ==
    /\ dpc = "idle"
    /\ QueueFree /\ ~queuePoisoned
    /\ internal_queue # <<>>
    /\ next_task_schedule_id' = Head(internal_queue)
    /\ internal_queue' = Tail(internal_queue)
    /\ dpc' = "popped"
    /\ UNCHANGED <<now, db, redisUp, queuePoisoned, configPoisoned, index,
                   jobs, queues, registry, uuid, mpc, rpc, stopwatch, kpc,
                   ripe, fired, hpc, hreq, hreply>>
    /\ UNCHANGED <<call, returned, sqlUp>>

\* the iteration of thread 1 for the id popped panics: read_btu_task_schedule
\* unwraps the Err of get_mysql_conn, or the row is read and the projection
\* panics
DrainerPanics ==
    /\ ~configPoisoned
    /\ ~(/\ sqlUp
         /\ ~(/\ read_btu_task_schedule(db, next_task_schedule_id) # "absent"
              /\ ProjectionPanics(next_task_schedule_id, now)))

\* the rest of one iteration for the id popped: the row is read and the
\* member added under both locks; the thread is back at the top of its loop
\* when the clock shows `wake`
D_Iterate(wake) ==
    /\ dpc = "popped"
    /\ ConfigFree
    /\ ~DrainerPanics
    /\ index' =
          IF configPoisoned THEN index
          ELSE IF read_btu_task_schedule(db, next_task_schedule_id) = "absent"
          THEN index
          ELSE add_task_schedule_to_rq(index, next_task_schedule_id, now, redisUp)
    /\ dpc' = "idle"
    /\ next_task_schedule_id' = NoId
    /\ now' = wake
    /\ UNCHANGED <<db, redisUp, internal_queue, queuePoisoned,
                   configPoisoned, jobs, queues, registry, uuid, mpc, rpc,
                   stopwatch, kpc, ripe, fired, hpc, hreq, hreply>>
    /\ UNCHANGED <<call, returned, sqlUp>>

\* the same, the sleep of 1250 ms left to the clock
D_Process == D_Iterate(now)

\* the iteration when there is no SQL connection, or for an id whose
\* cron_string the cron crate rejects: get_mysql_conn(..).unwrap() panics in
\* read_btu_task_schedule, Schedule::from_str(..).unwrap() in
\* tz_cron_to_utc_datetimes, with the guards of the queue and of APP_CONFIG
\* alive; the thread ends and both are poisoned
D_Panic ==
    /\ dpc = "popped"
    /\ ConfigFree
    /\ DrainerPanics
    /\ dpc' = "dead"
    /\ queuePoisoned' = TRUE
    /\ configPoisoned' = TRUE
    /\ UNCHANGED <<now, db, redisUp, internal_queue, index, jobs, queues,
                   registry, uuid, mpc, next_task_schedule_id, rpc, stopwatch,
                   kpc, ripe, fired, hpc, hreq, hreply>>
    /\ UNCHANGED <<call, returned, sqlUp>>

-----------------------------------------------------------------------------
(* Thread 2_Auto_Refill.                                                   *)

R_Lock ==
    /\ rpc = "idle"
    /\ now - stopwatch > FullRefresh
    /\ QueueFree /\ ~queuePoisoned
    /\ rpc' = "refill"
    /\ UNCHANGED <<now, db, redisUp, internal_queue, queuePoisoned,
                   configPoisoned, index, jobs, queues, registry, uuid, mpc,
                   dpc, next_task_schedule_id, stopwatch, kpc, ripe, fired,
                   hpc, hreq, hreply>>
    /\ UNCHANGED <<call, returned, sqlUp>>

\* the refill of thread 2, had it reset the stopwatch after an Err as well
R_RefillUpTo_reset_on_error(cap) ==
    /\ rpc = "refill"
    /\ ConfigFree
    /\ IF configPoisoned
       THEN /\ rpc' = "dead"
            /\ queuePoisoned' = TRUE
            /\ UNCHANGED <<internal_queue, stopwatch>>
       ELSE IF ~sqlUp
       THEN /\ rpc' = "idle"
            /\ stopwatch' = now
            /\ UNCHANGED <<internal_queue, queuePoisoned>>
       ELSE /\ Len(queue_full_refill(internal_queue, db)) <= cap
            /\ internal_queue' = queue_full_refill(internal_queue, db)
            /\ stopwatch' = now
            /\ rpc' = "print"
            /\ UNCHANGED queuePoisoned
    /\ UNCHANGED <<now, db, redisUp, configPoisoned, index, jobs, queues,
                   registry, uuid, mpc, dpc, next_task_schedule_id, kpc, ripe,
                   fired, hpc, hreq, hreply>>
    /\ UNCHANGED <<call, returned, sqlUp>>

\* queue_full_refill locks APP_CONFIG for the connection; unwrap() of a
\* poisoned lock panics while the guard of the queue is alive; the Err of
\* get_mysql_conn is returned with `?` and logged, the stopwatch not reset
R_RefillUpTo(cap) ==
    /\ rpc = "refill"
    /\ ConfigFree
    /\ IF configPoisoned
       THEN /\ rpc' = "dead"
            /\ queuePoisoned' = TRUE
            /\ UNCHANGED <<internal_queue, stopwatch>>
       ELSE IF ~sqlUp
       THEN /\ rpc' = "idle"
            /\ UNCHANGED <<internal_queue, stopwatch, queuePoisoned>>
       ELSE /\ Len(queue_full_refill(internal_queue, db)) <= cap
            /\ internal_queue' = queue_full_refill(internal_queue, db)
            /\ stopwatch' = now
            /\ rpc' = "print"
            /\ UNCHANGED queuePoisoned
    /\ UNCHANGED <<now, db, redisUp, configPoisoned, index, jobs, queues,
                   registry, uuid, mpc, dpc, next_task_schedule_id, kpc, ripe,
                   fired, hpc, hreq, hreply>>
    /\ UNCHANGED <<call, returned, sqlUp>>

R_Refill == R_RefillUpTo(MaxQueue)

\* rq_print_scheduled_tasks under the APP_CONFIG lock, then both released
R_Print ==
    /\ rpc = "print"
    /\ ConfigFree
    /\ rpc' = "idle"
    /\ UNCHANGED <<now, db, redisUp, internal_queue, queuePoisoned,
                   configPoisoned, index, jobs, queues, registry, uuid, mpc,
                   dpc, next_task_schedule_id, stopwatch, kpc, ripe, fired,
                   hpc, hreq, hreply>>
    /\ UNCHANGED <<call, returned, sqlUp>>

-----------------------------------------------------------------------------
(* Thread 3_Scheduler: both locks are held for the whole poll.             *)

\* the top of the loop: the Instant of the pass is taken, `timed` says
\* whether the model keeps it (in `call`), then the queue is locked
K_LockAt(timed) ==
    /\ kpc = "idle"
    /\ QueueFree /\ ~queuePoisoned
    /\ kpc' = "haveQ"
    /\ call' = IF timed THEN [fn |-> "3_Scheduler", stopwatch |-> now] ELSE call
    /\ UNCHANGED <<now, db, redisUp, internal_queue, queuePoisoned,
                   configPoisoned, index, jobs, queues, registry, uuid, mpc,
                   dpc, next_task_schedule_id, rpc, stopwatch, ripe, fired,
                   hpc, hreq, hreply>>
    /\ UNCHANGED <<returned, sqlUp>>

K_Lock == K_LockAt(FALSE)

K_Fetch ==
    /\ kpc = "haveQ"
    /\ ConfigFree
    /\ ripe' = IF configPoisoned THEN <<>>
               ELSE fetch_task_schedules_ready_for_rq(index, now, redisUp)
    /\ kpc' = IF ripe' = <<>> THEN "polled" ELSE "firing"
    /\ fired' = NoFiring
    /\ UNCHANGED <<now, db, redisUp, internal_queue, queuePoisoned,
                   configPoisoned, index, jobs, queues, registry, uuid, mpc,
                   dpc, next_task_schedule_id, rpc, stopwatch, hpc, hreq,
                   hreply>>
    /\ UNCHANGED <<call, returned, sqlUp>>

\* run_immediate_scheduled_task panics at its read of the row: Redis is
\* reached and there is no SQL connection
RunnerPanics == redisUp /\ ~sqlUp

\* one pass of the loop of check_and_run_eligible_task_schedules, the
\* payload of the task fetched from the web server; job_cap and cap: the
\* most job ids and the longest queue the model follows; sadd_ok and
\* rpush_ok: whether Redis answers the commands of enqueue_job_immediate,
\* whose Err is logged and followed by the push_back all the same;
\* `logged`: whether the model keeps in `returned` the members for which a
\* job was made
K_FireWith(job_cap, cap, sadd_ok, rpush_ok, logged) ==
    /\ kpc = "firing"
    /\ ~RunnerPanics
    /\ uuid < job_cap
    /\ Len(internal_queue) < cap
    /\ LET inst == Head(ripe)
           out == run_immediate_scheduled_task(inst, index, db, redisUp)
           rq_job == to_rq_job(inst.task_schedule_id, uuid + 1)
           saved == save_to_redis(jobs, rq_job)
           done == enqueue_job_immediate(saved, registry, queues,
                                         rq_job.job_key_short, sadd_ok, rpush_ok)
       IN  /\ index' = out.index
           /\ IF out.dispatch
              THEN /\ uuid' = uuid + 1
                   /\ jobs' = saved
                   /\ registry' = done.registry
                   /\ queues' = done.queues
                   /\ internal_queue' = Append(internal_queue, inst.task_schedule_id)
              ELSE UNCHANGED <<uuid, jobs, registry, queues, internal_queue>>
           /\ fired' = [task_schedule_id |-> inst.task_schedule_id,
                        next_datetime_unix |-> inst.next_datetime_unix,
                        zrem |-> out.zrem,
                        schedule |-> out.schedule,
                        job |-> IF out.dispatch THEN uuid + 1 ELSE 0]
    /\ ripe' = Tail(ripe)
    /\ kpc' = IF ripe' = <<>> THEN "polled" ELSE "firing"
    /\ UNCHANGED <<now, db, redisUp, queuePoisoned, configPoisoned, mpc, dpc,
                   next_task_schedule_id, rpc, stopwatch, hpc, hreq, hreply>>
    /\ returned' = IF logged /\ run_immediate_scheduled_task(Head(ripe), index, db, redisUp).dispatch
                   THEN Append(returned, to_tsik(Head(ripe)))
                   ELSE returned
    /\ UNCHANGED <<call, sqlUp>>

\* the same pass with Redis answering both commands
K_FireUpTo(job_cap, cap) == K_FireWith(job_cap, cap, TRUE, TRUE, FALSE)

K_Fire == K_FireUpTo(MaxJobs, MaxQueue)

\* the same pass when get_pickled_function_from_web returns Err: to_rq_job
\* panics after ZREM and the read of an enabled row, with the guards of the
\* queue and of APP_CONFIG alive; the thread ends and both are poisoned
K_FireNoPayload ==
    /\ kpc = "firing"
    /\ ~RunnerPanics
    /\ LET inst == Head(ripe)
           out == run_immediate_scheduled_task(inst, index, db, redisUp)
       IN  /\ out.dispatch
           /\ index' = out.index
           /\ fired' = [task_schedule_id |-> inst.task_schedule_id,
                        next_datetime_unix |-> inst.next_datetime_unix,
                        zrem |-> out.zrem,
                        schedule |-> out.schedule,
                        job |-> 0]
    /\ ripe' = <<>>
    /\ kpc' = "dead"
    /\ queuePoisoned' = TRUE
    /\ configPoisoned' = TRUE
    /\ UNCHANGED <<now, db, redisUp, internal_queue, jobs, queues, registry,
                   uuid, mpc, dpc, next_task_schedule_id, rpc, stopwatch, hpc,
                   hreq, hreply>>
    /\ UNCHANGED <<call, returned, sqlUp>>

\* the same pass without a SQL connection: ZREM is sent, then
\* read_btu_task_schedule unwraps the Err of get_mysql_conn and panics with
\* the guards of the queue and of APP_CONFIG alive
K_SqlPanic ==
    /\ kpc = "firing"
    /\ RunnerPanics
    /\ LET inst == Head(ripe)
       IN  /\ index' = ZREM(index, to_tsik(inst))
           /\ fired' = [task_schedule_id |-> inst.task_schedule_id,
                        next_datetime_unix |-> inst.next_datetime_unix,
                        zrem |-> ZREM_count(index, to_tsik(inst)),
                        schedule |-> "unread",
                        job |-> 0]
    /\ ripe' = <<>>
    /\ kpc' = "dead"
    /\ queuePoisoned' = TRUE
    /\ configPoisoned' = TRUE
    /\ UNCHANGED <<now, db, redisUp, internal_queue, jobs, queues, registry,
                   uuid, mpc, dpc, next_task_schedule_id, rpc, stopwatch, hpc,
                   hreq, hreply>>
    /\ UNCHANGED <<call, returned, sqlUp>>

\* config.rs: scheduler_polling_interval, in seconds
scheduler_polling_interval == 1

\* a Duration of c * 2^64 + s seconds
Seconds(c, s) == [two_pow_64s |-> c, secs |-> s]

Builds == {"debug", "release"}

\* a - b on u64: with overflow checks (debug profile) a panic when b > a,
\* without them (release profile) the difference modulo 2^64
sub_u64(a, b, build) ==
    IF a >= b THEN Ok(Seconds(0, a - b))
    ELSE IF build = "debug" THEN Panicked
    ELSE Ok(Seconds(1, a - b))

\* check_and_run_eligible_task_schedules returns and both guards are
\* dropped; then the thread computes its sleep from the stopwatch of the
\* pass.  `timed`: whether the model follows the stopwatch, keeping in
\* `returned` what the subtraction yielded: on a panic the thread ends, on
\* a wrapped difference it sleeps for about 2^64 seconds
K_DoneIn(timed, build) ==
    /\ kpc = "polled"
    /\ fired' = NoFiring
    /\ IF timed
       THEN LET elapsed_seconds == now - call.stopwatch
                sleep == sub_u64(scheduler_polling_interval, elapsed_seconds, build)
            IN  /\ returned' = <<sleep>>
                /\ kpc' = IF ~sleep.ok THEN "dead"
                          ELSE IF sleep.value.two_pow_64s > 0 THEN "asleep"
                          ELSE "idle"
       ELSE /\ kpc' = "idle"
            /\ UNCHANGED returned
    /\ UNCHANGED <<now, db, redisUp, internal_queue, queuePoisoned,
                   configPoisoned, index, jobs, queues, registry, uuid, mpc,
                   dpc, next_task_schedule_id, rpc, stopwatch, ripe, hpc,
                   hreq, hreply>>
    /\ UNCHANGED <<call, sqlUp>>

\* the same with a polling interval longer than the time the model follows
K_Done == K_DoneIn(FALSE, "release")


-----------------------------------------------------------------------------
(* Thread Unix_Socket_Handler (ipc_stream.rs).  The thread is spawned with *)
(* APP_CONFIG.lock().unwrap() as an argument of handle_client_request, so  *)
(* the configuration stays locked until the handler returns; a panic of    *)
(* the handler poisons it.                                                 *)

\* members with prefix "<id>|"
MembersOf(idx, id) == {m \in Members(idx) : StartsWith(m, id \o <<Pipe>>)}

\* handle_client_request, had "ping" fallen through to the default branch
handle_client_request_ping_unhandled(req, idx, redis) ==
    IF ~req.utf8
    THEN [reply |-> Reply("", "panic"), index |-> idx, panic |-> TRUE]
    ELSE IF ~req.json
    THEN [reply |-> Reply("", "Err"), index |-> idx, panic |-> FALSE]
    ELSE IF req.request_type = "ping"
    THEN IF req.write_ok
         THEN [reply |-> Reply(UNHANDLED, "Err"), index |-> idx, panic |-> FALSE]
         ELSE [reply |-> Reply("", "panic"), index |-> idx, panic |-> TRUE]
    ELSE IF req.request_type = "create_task_schedule"
    THEN [reply |-> Reply("", "Err"), index |-> idx, panic |-> FALSE]
    ELSE IF req.request_type = "cancel_task_schedule"
    THEN IF req.request_content = <<>>
         THEN [reply |-> Reply("", "Err"), index |-> idx, panic |-> FALSE]
         ELSE IF ~redis
         THEN [reply |-> Reply("", "panic"), index |-> idx, panic |-> TRUE]
         ELSE LET task_schedule_id == req.request_content[1]
                  done == rq_cancel_scheduled_task(idx, task_schedule_id)
              IN  IF req.write_ok
                  THEN [reply |-> Reply(CANCELLED, "Ok"),
                        index |-> done.index, panic |-> FALSE]
                  ELSE [reply |-> Reply("", "panic"),
                        index |-> done.index, panic |-> TRUE]
    ELSE IF req.write_ok
         THEN [reply |-> Reply(UNHANDLED, "Err"), index |-> idx, panic |-> FALSE]
         ELSE [reply |-> Reply("", "panic"), index |-> idx, panic |-> TRUE]

\* handle_client_request, had the default branch panicked
handle_client_request_unknown_panics(req, idx, redis) ==
    IF ~req.utf8
    THEN [reply |-> Reply("", "panic"), index |-> idx, panic |-> TRUE]
    ELSE IF ~req.json
    THEN [reply |-> Reply("", "Err"), index |-> idx, panic |-> FALSE]
    ELSE IF req.request_type = "ping"
    THEN IF req.write_ok
         THEN [reply |-> Reply(PONG, "Ok"), index |-> idx, panic |-> FALSE]
         ELSE [reply |-> Reply("", "panic"), index |-> idx, panic |-> TRUE]
    ELSE IF req.request_type = "create_task_schedule"
    THEN [reply |-> Reply("", "Err"), index |-> idx, panic |-> FALSE]
    ELSE IF req.request_type = "cancel_task_schedule"
    THEN IF req.request_content = <<>>
         THEN [reply |-> Reply("", "Err"), index |-> idx, panic |-> FALSE]
         ELSE IF ~redis
         THEN [reply |-> Reply("", "panic"), index |-> idx, panic |-> TRUE]
         ELSE LET task_schedule_id == req.request_content[1]
                  done == rq_cancel_scheduled_task(idx, task_schedule_id)
              IN  IF req.write_ok
                  THEN [reply |-> Reply(CANCELLED, "Ok"),
                        index |-> done.index, panic |-> FALSE]
                  ELSE [reply |-> Reply("", "panic"),
                        index |-> done.index, panic |-> TRUE]
    ELSE IF req.write_ok
         THEN [reply |-> Reply("", "panic"), index |-> idx, panic |-> TRUE]
         ELSE [reply |-> Reply("", "panic"), index |-> idx, panic |-> TRUE]

\* what the handler does between taking the APP_CONFIG lock and returning,
\* for every request but a create_task_schedule with content:
\* the reply, the sorted set afterwards and whether the thread panicked
handle_client_request(req, idx, redis) ==
    IF ~req.utf8
    THEN [reply |-> Reply("", "panic"), index |-> idx, panic |-> TRUE]
    ELSE IF ~req.json
    THEN [reply |-> Reply("", "Err"), index |-> idx, panic |-> FALSE]
    ELSE IF req.request_type = "ping"
    THEN IF req.write_ok
         THEN [reply |-> Reply(PONG, "Ok"), index |-> idx, panic |-> FALSE]
         ELSE [reply |-> Reply("", "panic"), index |-> idx, panic |-> TRUE]
    ELSE IF req.request_type = "create_task_schedule"
    THEN [reply |-> Reply("", "Err"), index |-> idx, panic |-> FALSE]
    ELSE IF req.request_type = "cancel_task_schedule"
    THEN IF req.request_content = <<>>
         THEN [reply |-> Reply("", "Err"), index |-> idx, panic |-> FALSE]
         ELSE IF ~redis
         THEN [reply |-> Reply("", "panic"), index |-> idx, panic |-> TRUE]
         ELSE LET task_schedule_id == req.request_content[1]
                  done == rq_cancel_scheduled_task(idx, task_schedule_id)
              IN  IF req.write_ok
                  THEN [reply |-> Reply(CANCELLED, "Ok"),
                        index |-> done.index, panic |-> FALSE]
                  ELSE [reply |-> Reply("", "panic"),
                        index |-> done.index, panic |-> TRUE]
    ELSE IF req.write_ok
         THEN [reply |-> Reply(UNHANDLED, "Err"), index |-> idx, panic |-> FALSE]
         ELSE [reply |-> Reply("", "panic"), index |-> idx, panic |-> TRUE]

IsCreate(req) ==
    /\ req.utf8 /\ req.json
    /\ req.request_type = "create_task_schedule"
    /\ req.request_content # <<>>

\* a connection is accepted, its thread takes the APP_CONFIG lock and runs
\* the handler up to its return or, for a create, up to queue.lock()
H_Run(req) ==
    /\ mpc = "listen"
    /\ hpc = "none"
    /\ ConfigFree
    /\ hreq' = req
    /\ IF configPoisoned
       THEN /\ hpc' = "replied"
            /\ hreply' = Reply("", "panic")
            /\ UNCHANGED <<index, configPoisoned>>
       ELSE IF IsCreate(req)
       THEN /\ Len(internal_queue) < MaxQueue
            /\ hpc' = "waitQ"
            /\ hreply' = NoReply
            /\ UNCHANGED <<index, configPoisoned>>
       ELSE LET out == handle_client_request(req, index, redisUp)
            IN  /\ hpc' = "replied"
                /\ hreply' = out.reply
                /\ index' = out.index
                /\ configPoisoned' = out.panic
    /\ UNCHANGED <<now, db, redisUp, internal_queue, queuePoisoned, jobs,
                   queues, registry, uuid, mpc, dpc, next_task_schedule_id,
                   rpc, stopwatch, kpc, ripe, fired>>
    /\ UNCHANGED <<call, returned, sqlUp>>

\* create_task_schedule, had it replied without the push_back
H_Push_unpushed ==
    /\ hpc = "waitQ"
    /\ QueueFree
    /\ hpc' = "replied"
    /\ IF queuePoisoned
       THEN /\ hreply' = Reply("", "Err")
            /\ UNCHANGED configPoisoned
       ELSE IF hreq.write_ok
            THEN /\ hreply' = Reply(CREATED, "Ok")
                 /\ UNCHANGED configPoisoned
            ELSE /\ hreply' = Reply("", "panic")
                 /\ configPoisoned' = TRUE
    /\ UNCHANGED <<now, db, redisUp, queuePoisoned, index, jobs, queues,
                   registry, uuid, mpc, dpc, next_task_schedule_id, rpc,
                   stopwatch, kpc, ripe, fired, hreq, internal_queue>>
    /\ UNCHANGED <<call, returned, sqlUp>>

\* create_task_schedule: push_back under the queue lock, then the reply
H_Push ==
    /\ hpc = "waitQ"
    /\ QueueFree
    /\ hpc' = "replied"
    /\ IF queuePoisoned
       THEN /\ hreply' = Reply("", "Err")
            /\ UNCHANGED <<internal_queue, configPoisoned>>
       ELSE /\ Len(internal_queue) < MaxQueue
            /\ internal_queue' = Append(internal_queue, hreq.request_content[1])
            /\ IF hreq.write_ok
               THEN /\ hreply' = Reply(CREATED, "Ok")
                    /\ UNCHANGED configPoisoned
               ELSE /\ hreply' = Reply("", "panic")
                    /\ configPoisoned' = TRUE
    /\ UNCHANGED <<now, db, redisUp, queuePoisoned, index, jobs, queues,
                   registry, uuid, mpc, dpc, next_task_schedule_id, rpc,
                   stopwatch, kpc, ripe, fired, hreq>>
    /\ UNCHANGED <<call, returned, sqlUp>>

\* handle_client_request has returned or panicked: the guard of APP_CONFIG
\* is dropped and the thread ends
H_Return ==
    /\ hpc = "replied"
    /\ hpc' = "none"
    /\ hreq' = NoRequest
    /\ hreply' = NoReply
    /\ UNCHANGED <<now, db, redisUp, internal_queue, queuePoisoned,
                   configPoisoned, index, jobs, queues, registry, uuid, mpc,
                   dpc, next_task_schedule_id, rpc, stopwatch, kpc, ripe,
                   fired>>
    /\ UNCHANGED <<call, returned, sqlUp>>

H_Good == \E req \in GoodRequests : H_Run(req)

H_Bad == \E req \in BadRequests : H_Run(req)

-----------------------------------------------------------------------------

Next ==
    \/ Tick
    \/ DbEdit
    \/ RedisToggle
    \/ M_Refill
    \/ D_Pop
    \/ D_Process
    \/ R_Lock
    \/ R_Refill
    \/ R_Print
    \/ K_Lock
    \/ K_Fetch
    \/ K_Fire
    \/ K_Done
    \/ H_Good
    \/ H_Push
    \/ H_Return

Spec == Init /\ [][Next]_vars

\* the same program with an environment that fails in more ways: Redis
\* flushed, requests that do not decode, clients that hang up
NextFaults ==
    \/ Next
    \/ RedisFlush
    \/ H_Bad

SpecFaults == Init /\ [][NextFaults]_vars

TypeOK ==
    /\ now \in 0..MaxTime
    /\ db \in [Ids -> DbStates]
    /\ Len(internal_queue) <= MaxQueue
    /\ uuid \in 0..MaxJobs


-----------------------------------------------------------------------------
(* Startup against the clock.  The clock counts the Drainer's sleeps of    *)
(* 1250 ms: the Drainer handles one id, sleeps, and handles the next.      *)

S2 == <<"S", "2">>
S3 == <<"S", "3">>

\* a table with more rows than full_refresh_internal_secs has sleeps
StartupIds == {S1, S10, S2, S3}

\* the sleep at the end of the Drainer's loop, in units of the clock
DrainerSleep == 1

InitStartup == \E rows \in [StartupIds -> DbStates] : InitWith(rows)

M_RefillAll == M_RefillUpTo(Cardinality(StartupIds))

D_ProcessAndSleep == D_Iterate(now + DrainerSleep)

NextStartup ==
    \/ M_RefillAll
    \/ D_Pop
    \/ D_ProcessAndSleep

SpecStartup == InitStartup /\ [][NextStartup]_vars

-----------------------------------------------------------------------------
(* The workers alone, SQL and Redis reachable, every thread scheduled      *)
(* again and again, the web server failing at times.  The clock runs one   *)
(* refresh period longer and no cap of the model is reached.               *)

LiveTime == MaxTime + FullRefresh + 1

LiveCap == Cardinality(Ids) * (LiveTime + 2)

TickOn == TickUpTo(LiveTime)

M_RefillOn == M_RefillUpTo(LiveCap)

R_RefillOn == R_RefillUpTo(LiveCap)

K_FireOn == K_FireUpTo(LiveCap, LiveCap)

NextRestore ==
    \/ TickOn
    \/ M_RefillOn
    \/ D_Pop
    \/ D_Process
    \/ R_Lock
    \/ R_RefillOn
    \/ R_Print
    \/ K_Lock
    \/ K_Fetch
    \/ K_FireOn
    \/ K_FireNoPayload
    \/ K_Done

\* a thread that waits for a mutex gets it (SF); a thread that can take its
\* next step takes it (WF); the clock goes on
FairRestore ==
    /\ WF_vars(TickOn)
    /\ WF_vars(M_RefillOn)
    /\ SF_vars(D_Pop \/ D_Process)
    /\ SF_vars(R_Lock \/ R_RefillOn \/ R_Print)
    /\ SF_vars(K_Lock \/ K_Fetch \/ K_FireOn \/ K_FireNoPayload \/ K_Done)

SpecRestore == Init /\ [][NextRestore]_vars /\ FairRestore

-----------------------------------------------------------------------------
(* The workers under a clock that jumps forward by any number of seconds,  *)
(* as after a suspend or a step of the system time.                        *)

JumpTime == LiveTime + 1

ClockJump ==
    /\ now < JumpTime
    /\ now' \in (now + 1)..JumpTime
    /\ UNCHANGED <<db, redisUp, internal_queue, queuePoisoned, configPoisoned,
                   index, jobs, queues, registry, uuid, mpc, dpc,
                   next_task_schedule_id, rpc, stopwatch, kpc, ripe, fired,
                   hpc, hreq, hreply>>
    /\ UNCHANGED <<call, returned, sqlUp>>

NextJump ==
    \/ ClockJump
    \/ M_RefillOn
    \/ D_Pop
    \/ D_Process
    \/ R_Lock
    \/ R_RefillOn
    \/ R_Print
    \/ K_Lock
    \/ K_Fetch
    \/ K_FireOn
    \/ K_Done

SpecJump == Init /\ [][NextJump]_vars

-----------------------------------------------------------------------------
(* main() from its probes of Redis and SQL on, for both values of          *)
(* startup_without_database_connections.                                   *)

InitProbes ==
    /\ now = 0
    /\ db = [id \in Ids |-> "enabled"]
    /\ redisUp \in BOOLEAN
    /\ sqlUp \in BOOLEAN
    /\ internal_queue = <<>>
    /\ queuePoisoned = FALSE
    /\ configPoisoned = FALSE
    /\ index = {}
    /\ jobs = {}
    /\ queues = [q \in QueueNames |-> <<>>]
    /\ registry = {}
    /\ uuid = 0
    /\ mpc = "probe_redis"
    /\ dpc = "unspawned"
    /\ next_task_schedule_id = NoId
    /\ rpc = "unspawned"
    /\ stopwatch = 0
    /\ kpc = "unspawned"
    /\ ripe = <<>>
    /\ fired = NoFiring
    /\ hpc = "none"
    /\ hreq = NoRequest
    /\ hreply = NoReply
    /\ call \in [fn : {"main"},
                 startup_without_database_connections : BOOLEAN]
    /\ returned = <<>>

NextProbes ==
    \/ Tick
    \/ RedisToggle
    \/ SqlToggle
    \/ M_ProbeRedis
    \/ M_ProbeSql
    \/ M_Spawn
    \/ M_Refill
    \/ D_Pop
    \/ D_Process
    \/ D_Panic
    \/ R_Lock
    \/ R_Refill
    \/ R_Print
    \/ K_Lock
    \/ K_Fetch
    \/ K_Fire
    \/ K_SqlPanic
    \/ K_Done
    \/ H_Good
    \/ H_Push
    \/ H_Return

SpecProbes == InitProbes /\ [][NextProbes]_vars

-----------------------------------------------------------------------------
(* The daemon with a SQL server that goes away and comes back.             *)

NextSqlFaults ==
    \/ Tick
    \/ SqlToggle
    \/ M_Refill
    \/ D_Pop
    \/ D_Process
    \/ D_Panic
    \/ R_Lock
    \/ R_Refill
    \/ R_Print
    \/ K_Lock
    \/ K_Fetch
    \/ K_Fire
    \/ K_SqlPanic
    \/ K_Done

SpecSqlFaults == Init /\ [][NextSqlFaults]_vars

-----------------------------------------------------------------------------
(* The daemon over a table with rows whose cron_string is malformed.       *)

BadCronIds == {S1, S4, S5}

InitBadCron == \E rows \in [BadCronIds -> DbStates] : InitWith(rows)

M_RefillBadCron == M_RefillUpTo(Cardinality(BadCronIds))

R_RefillBadCron == R_RefillUpTo(2 * Cardinality(BadCronIds))

NextBadCron ==
    \/ Tick
    \/ M_RefillBadCron
    \/ D_Pop
    \/ D_Process
    \/ D_Panic
    \/ R_Lock
    \/ R_RefillBadCron
    \/ R_Print

SpecBadCron == InitBadCron /\ [][NextBadCron]_vars

-----------------------------------------------------------------------------
(* The Runner with a Redis that may refuse SADD or RPUSH, and calls of     *)
(* enqueue_job_immediate for a job id given from outside, as btu_cli makes *)
(* them.                                                                   *)

Replies == BOOLEAN \X BOOLEAN

K_FireReplies ==
    \E r \in Replies : K_FireWith(MaxJobs, MaxQueue, r[1], r[2], FALSE)

\* enqueue_job_immediate called on its own for any job id, the record of
\* which may be missing (flushed or never saved): `call` keeps the id,
\* `returned` whether the function returned Ok
Call_enqueue_job_immediate ==
    /\ redisUp
    /\ \E job_id \in 1..MaxJobs, r \in Replies :
          LET done == enqueue_job_immediate(jobs, registry, queues, job_id,
                                            r[1], r[2])
          IN  /\ \A q \in QueueNames : Len(done.queues[q]) <= MaxJobs
              /\ registry' = done.registry
              /\ queues' = done.queues
              /\ call' = [fn |-> "enqueue_job_immediate", job_id |-> job_id]
              /\ returned' = <<done.ok>>
    /\ UNCHANGED <<now, db, redisUp, internal_queue, queuePoisoned,
                   configPoisoned, index, jobs, uuid, mpc, dpc,
                   next_task_schedule_id, rpc, stopwatch, kpc, ripe, fired,
                   hpc, hreq, hreply, sqlUp>>

NextEnqueue ==
    \/ Tick
    \/ M_Refill
    \/ D_Pop
    \/ D_Process
    \/ K_Lock
    \/ K_Fetch
    \/ K_FireReplies
    \/ K_Done
    \/ RedisFlush
    \/ Call_enqueue_job_immediate

SpecEnqueue == Init /\ [][NextEnqueue]_vars

-----------------------------------------------------------------------------
(* Thread 3 with the stopwatch of each pass, for a polling interval of one *)
(* second, built with and without overflow checks.                         *)

K_LockTimed == K_LockAt(TRUE)

K_Sleep == \E build \in Builds : K_DoneIn(TRUE, build)

NextPollSleep ==
    \/ Tick
    \/ M_Refill
    \/ D_Pop
    \/ D_Process
    \/ K_LockTimed
    \/ K_Fetch
    \/ K_Fire
    \/ K_Sleep

SpecPollSleep == Init /\ [][NextPollSleep]_vars

-----------------------------------------------------------------------------
(* The daemon of a site whose BTU Configuration names a time zone east of  *)
(* UTC, seen one hour into the model's clock, with the members for which   *)
(* the Runner made a job kept in `returned`.                               *)

\* 2021-12-25T01:00:00Z: one offset into the clock, so that no projection
\* falls before the clock's origin
EastStart == Europe_Berlin

\* how long the run is followed: until a full refresh is due
EastSpan == FullRefresh + 1

InitEast ==
    /\ SpawnedAt([id \in Ids |-> "enabled"], EastStart)
    /\ call = [fn |-> "main", cron_time_zone |-> Europe_Berlin]
    /\ returned = <<>>
    /\ sqlUp = TRUE

TickEast == TickUpTo(EastStart + EastSpan)

K_FireLogged == K_FireWith(MaxJobs, MaxQueue, TRUE, TRUE, TRUE)

NextEast ==
    \/ TickEast
    \/ M_Refill
    \/ D_Pop
    \/ D_Process
    \/ K_Lock
    \/ K_Fetch
    \/ K_FireLogged
    \/ K_Done
    \/ R_Lock
    \/ R_Refill
    \/ R_Print
    \/ H_Good
    \/ H_Push
    \/ H_Return

SpecEast == InitEast /\ [][NextEast]_vars

-----------------------------------------------------------------------------
(* Steps and holders the properties speak about.                           *)

\* one call of run_immediate_scheduled_task, for the instance Head(ripe)
FireStep == kpc = "firing" /\ ripe' # ripe

\* the Drainer's read of the row and its call of add_task_schedule_to_rq
DrainStep == dpc = "popped" /\ dpc' = "idle"

IsCancel(req) ==
    /\ req.utf8 /\ req.json
    /\ req.request_type = "cancel_task_schedule"
    /\ req.request_content # <<>>

\* a handler thread that got past APP_CONFIG.lock().unwrap() serves a
\* cancel_task_schedule request that carries an id
CancelStep ==
    /\ hpc = "none" /\ hpc' = "replied" /\ IsCancel(hreq')
    /\ ~configPoisoned

\* a connection with a cancel_task_schedule request carrying an id is served
CancelRequest == hpc = "none" /\ hpc' = "replied" /\ IsCancel(hreq')

QueueHolder ==
    IF dpc = "popped" THEN "1_Internal_Queue"
    ELSE IF rpc \in {"refill", "print"} THEN "2_Auto_Refill"
    ELSE IF kpc \in {"haveQ", "firing", "polled"} THEN "3_Scheduler"
    ELSE "nobody"

\* steps that run a SQL query or a Redis command
RefillStep == rpc = "refill" /\ rpc' = "print"
PrintStep == rpc = "print" /\ rpc' = "idle"
FetchStep == kpc = "haveQ" /\ kpc' # "haveQ" /\ ~configPoisoned

-----------------------------------------------------------------------------
(* The web application and the Drainer: requests arrive over the socket,   *)
(* the Drainer works the queue off, the clock goes on.                     *)

NextClient ==
    \/ Tick
    \/ M_Refill
    \/ D_Pop
    \/ D_Process
    \/ H_Good
    \/ H_Push
    \/ H_Return

SpecClient == Init /\ [][NextClient]_vars

-----------------------------------------------------------------------------
(* A client that sends cancel_task_schedule and then create_task_schedule  *)
(* for the same id, at any time after startup.  hreq and hreply stay with  *)
(* the client when the handler thread has ended.                           *)

H_CancelFirst ==
    /\ hreq = NoRequest
    /\ \E id \in Ids : H_Run(Req("cancel_task_schedule", <<id>>, TRUE))

H_CreateSecond ==
    /\ IsCancel(hreq)
    /\ H_Run(Req("create_task_schedule", hreq.request_content, TRUE))

\* the handler thread ends: APP_CONFIG is unlocked, the client has the reply
H_Close ==
    /\ hpc = "replied"
    /\ hreply.result = "Ok"
    /\ hpc' = "none"
    /\ UNCHANGED <<now, db, redisUp, internal_queue, queuePoisoned,
                   configPoisoned, index, jobs, queues, registry, uuid, mpc,
                   dpc, next_task_schedule_id, rpc, stopwatch, kpc, ripe,
                   fired, hreq, hreply>>
    /\ UNCHANGED <<call, returned, sqlUp>>

NextCancelCreate ==
    \/ Tick
    \/ M_Refill
    \/ D_Pop
    \/ D_Process
    \/ H_CancelFirst
    \/ H_CreateSecond
    \/ H_Push
    \/ H_Close

SpecCancelCreate == Init /\ [][NextCancelCreate]_vars

-----------------------------------------------------------------------------
(* A client that sends a request of a type the daemon does not know and    *)
(* then a ping, while the workers run.                                     *)

H_UnknownFirst ==
    /\ hreq = NoRequest
    /\ H_Run(Req("frobnicate", <<>>, TRUE))

H_PingSecond ==
    /\ hreq.request_type = "frobnicate"
    /\ H_Run(Req("ping", <<>>, TRUE))

\* the handler thread ends, whatever it returned: APP_CONFIG is unlocked,
\* the client has the reply
H_End ==
    /\ hpc = "replied"
    /\ hpc' = "none"
    /\ UNCHANGED <<now, db, redisUp, internal_queue, queuePoisoned,
                   configPoisoned, index, jobs, queues, registry, uuid, mpc,
                   dpc, next_task_schedule_id, rpc, stopwatch, kpc, ripe,
                   fired, hreq, hreply>>
    /\ UNCHANGED <<call, returned, sqlUp>>

NextUnknownPing ==
    \/ Tick
    \/ M_Refill
    \/ D_Pop
    \/ D_Process
    \/ R_Lock
    \/ R_Refill
    \/ R_Print
    \/ K_Lock
    \/ K_Fetch
    \/ K_Fire
    \/ K_Done
    \/ H_UnknownFirst
    \/ H_PingSecond
    \/ H_End

SpecUnknownPing == Init /\ [][NextUnknownPing]_vars

-----------------------------------------------------------------------------
(* The functions of btu_cron.rs called on their own, as tests.rs calls     *)
(* them: the call is chosen at the start, the step applies the function    *)
(* and keeps what it returned.                                             *)

DaemonIdle ==
    UNCHANGED <<now, db, redisUp, internal_queue, queuePoisoned,
                configPoisoned, index, jobs, queues, registry, uuid, mpc, dpc,
                next_task_schedule_id, rpc, stopwatch, kpc, ripe, fired, hpc,
                hreq, hreply, sqlUp>>

\* the longest expression made of "*" and " " that is tried
MaxCronLen == 15

\* tests.rs, test_cron7_fail and test_cron7_success
expression_four ==
    <<"1", " ", "2", " ", "3", " ", "4">>

expression_eight ==
    <<"1", " ", "2", " ", "3", " ", "4", " ", "5", " ", "6", " ", "7", " ", "8">>

expression_five ==
    <<"3", "0", ",", "4", "5", " ", "1", "4", " ", "?", " ", "1", "-", "5", " ", "M", "o", "n", "d", "a", "y">>

expression_six ==
    <<"3", "0", ",", "4", "5", " ", "1", "4", " ", "?", " ", "1", "-", "5", " ", "M", "o", "n", "d", "a", "y", " ", "2", "0", "2", "1">>

expression_seven ==
    <<"2", "5", " ", "3", "0", " ", "1", "0", " ", "*", " ", "*", " ", "?", " ", "2", "0", "2", "1">>

Cron7Expressions ==
    UNION {[1..n -> {Space, Star}] : n \in 0..MaxCronLen}
      \cup {expression_four, expression_eight, expression_five,
            expression_six, expression_seven}

InitCron7 ==
    /\ Spawned([id \in Ids |-> "enabled"])
    /\ call \in [fn : {"cron_str_to_cron_str7"},
                 cron_expression_string : Cron7Expressions]
    /\ returned = <<>>

Call_cron_str_to_cron_str7 ==
    /\ call.fn = "cron_str_to_cron_str7"
    /\ returned = <<>>
    /\ returned' = <<cron_str_to_cron_str7(call.cron_expression_string)>>
    /\ UNCHANGED call
    /\ DaemonIdle

NextCron7 == Call_cron_str_to_cron_str7

SpecCron7 == InitCron7 /\ [][NextCron7]_vars

\* 2021-12-25T00:00:00Z, T00:00:01Z (the anchor of the tests), T03:00:00Z,
\* T11:30:00Z and 2021-12-26T02:45:00Z
Anchors == {0, 1, 10800, 41400, 96300}

MaxResults == 5

InitTzCron ==
    /\ Spawned([id \in Ids |-> "enabled"])
    /\ call \in [fn : {"tz_cron_to_utc_datetimes"},
                 cron_expression_string : CronExpressions,
                 cron_timezone : Timezones,
                 from_utc_datetime : Anchors,
                 number_of_results : 0..MaxResults]
    /\ returned = <<>>

Call_tz_cron_to_utc_datetimes ==
    /\ call.fn = "tz_cron_to_utc_datetimes"
    /\ returned = <<>>
    /\ returned' = <<tz_cron_to_utc_datetimes(call.cron_expression_string,
                                               call.cron_timezone,
                                               call.from_utc_datetime,
                                               call.number_of_results)>>
    /\ UNCHANGED call
    /\ DaemonIdle

NextTzCron == Call_tz_cron_to_utc_datetimes

SpecTzCron == InitTzCron /\ [][NextTzCron]_vars

-----------------------------------------------------------------------------
(* RQScheduledTask::to_tsik and from_tsik called on their own, for ids     *)
(* made of a letter, a digit and '|'.                                      *)

MaxIdLen == 3

MaxTimestamp == 11

IdCharacters == {"S", "7", Pipe}

TsikIds == UNION {[1..n -> IdCharacters] : n \in 1..MaxIdLen}

InitTsik ==
    /\ Spawned([id \in Ids |-> "enabled"])
    /\ call \in [fn : {"from_tsik"},
                 task_schedule_id : TsikIds,
                 next_datetime_unix : 0..MaxTimestamp]
    /\ returned = <<>>

\* the member is built by to_tsik and decoded by from_tsik; the second
\* result is the conversion from the pair (id, decimal string)
Call_from_tsik ==
    /\ call.fn = "from_tsik"
    /\ returned = <<>>
    /\ returned' =
          <<RQScheduledTask_from_tsik(
                to_tsik([task_schedule_id |-> call.task_schedule_id,
                         next_datetime_unix |-> call.next_datetime_unix])),
            RQScheduledTask_from_tuple(call.task_schedule_id,
                                       FormatNat(call.next_datetime_unix))>>
    /\ UNCHANGED call
    /\ DaemonIdle

NextTsik == Call_from_tsik

SpecTsik == InitTsik /\ [][NextTsik]_vars

-----------------------------------------------------------------------------
(* Properties.                                                             *)

\* C1: the Runner creates a job record, pushes onto a worker queue and
\* re-queues the id of a ripe member only if its own ZREM of that member
\* removed exactly one member; otherwise it dispatches nothing.
C1_DispatchOnlyIfZremOne ==
    [][(FireStep /\ fired'.zrem # 1)
         => (jobs' = jobs /\ queues' = queues /\ internal_queue' = internal_queue)]_vars

\* C2: no thread holds the InternalQueue mutex while it runs a SQL query or
\* a Redis command.
C2_NoIoUnderQueueMutex ==
    [][(DrainStep \/ RefillStep \/ PrintStep \/ FetchStep \/ FireStep)
         => QueueHolder = "nobody"]_vars

\* C3: a failure while handling one connection affects only that
\* connection: both mutexes stay acquirable and a ping is answered pong.
C3_FailureStaysInConnection ==
    /\ ~configPoisoned
    /\ ~queuePoisoned
    /\ (hpc = "replied" /\ hreq = Req("ping", <<>>, TRUE)
          => hreply.written = PONG)

\* C4: once a cancel_task_schedule(s) has been answered with success, s is
\* Dormant: neither in the InternalQueue nor in the Due-Time Index.
C4_CancelledIsDormant ==
    [][(CancelStep /\ hreply'.written = CANCELLED)
         => /\ \A i \in 1..Len(internal_queue') :
                  internal_queue'[i] # hreq'.request_content[1]
            /\ MembersOf(index', hreq'.request_content[1]) = {}]_vars

\* C5: cancel_all(s) leaves every member unchanged whose prefix is not s
\* followed by '|'.
C5_CancelKeepsOtherSchedules ==
    [][CancelStep
         => \A e \in index :
               ~StartsWith(e.member, hreq'.request_content[1] \o <<Pipe>>)
                  => e \in index']_vars

\* C6: with Redis reachable, a cancel_task_schedule(s) request is answered
\* with "Successfully cancelled" and no member with prefix "s|" remains.
C6_CancelAnsweredAndRemoved ==
    [][(CancelRequest /\ redisUp /\ hreq'.write_ok)
         => /\ hreply'.written = CANCELLED
            /\ MembersOf(index', hreq'.request_content[1]) = {}]_vars

\* C7: a cancel_task_schedule(s) issued when no member has prefix "s|" is
\* not answered with the success reply.
C7_NoSuccessWithoutMember ==
    [][(CancelStep /\ MembersOf(index, hreq'.request_content[1]) = {})
         => hreply'.written # CANCELLED]_vars

\* C8: when the Runner re-reads a schedule at fire time and it is absent or
\* disabled, it creates no job record, pushes nothing onto a worker queue,
\* does not re-queue the id, and the ripe member is gone from the index.
C8_NoDispatchOfDisabled ==
    [][(FireStep /\ redisUp
          /\ read_btu_task_schedule(db, Head(ripe).task_schedule_id) # "enabled")
         => /\ jobs' = jobs
            /\ queues' = queues
            /\ registry' = registry
            /\ internal_queue' = internal_queue
            /\ to_tsik(Head(ripe)) \notin Members(index')]_vars

\* C8 witness: the Runner has removed the ripe member of a disabled schedule
\* and has created no job for it.
C8_Witness ==
    /\ fired.schedule = "disabled"
    /\ fired.zrem = 1
    /\ fired.job = 0

\* C9: when the Drainer pops an id whose schedule is absent or disabled, it
\* inserts nothing into the index.
C9_DrainerSkipsDisabled ==
    [][(DrainStep /\ read_btu_task_schedule(db, next_task_schedule_id) # "enabled")
         => index' = index]_vars

C11_ArmedWithinRefreshPlusSleep ==
    (mpc = "listen" /\ now > FullRefresh + DrainerSleep)
      => \A id \in DOMAIN db :
            db[id] = "enabled" => MembersOf(index, id) # {}

\* C12: when the Runner has removed the ripe member of an enabled schedule
\* and the fetch of the payload fails, so that the id is not re-enqueued,
\* a member of that schedule with a score later than now eventually is in
\* the index again (while the clock leaves time for a full refresh).
C12_FailedFiringIsRestored ==
    \A id \in Ids :
       (/\ fired.task_schedule_id = id
        /\ fired.schedule = "enabled"
        /\ fired.zrem = 1
        /\ fired.job = 0
        /\ now + FullRefresh + 1 <= LiveTime)
          ~> (\E e \in index :
                 /\ StartsWith(e.member, id \o <<Pipe>>)
                 /\ e.score > now)

NextMemberOfPopped ==
    LET next_runtimes == tz_cron_to_utc_datetimes(CronOf(next_task_schedule_id),
                                                  cron_timezone, now, 1).value
    IN  [member |-> to_tsik([task_schedule_id |-> next_task_schedule_id,
                             next_datetime_unix |-> next_runtimes[1]]),
         score |-> next_runtimes[1]]

\* a Drainer pass over an id whose row exists, Redis reachable
DrainPass ==
    /\ DrainStep
    /\ redisUp
    /\ ~configPoisoned
    /\ read_btu_task_schedule(db, next_task_schedule_id) # "absent"

\* C14 (as stated): create_task_schedule issued N times for an enabled id
\* leads to the same index as issuing it once, also when the Drainer
\* processes the duplicates at different times: a pass over an id that
\* already has a member from an earlier pass leaves the index as it is.
C14_DuplicatePassKeepsIndex ==
    [][(/\ DrainPass
        /\ read_btu_task_schedule(db, next_task_schedule_id) = "enabled"
        /\ MembersOf(index, next_task_schedule_id) # {})
         => index' = index]_vars

\* C14 (amended): a pass adds exactly the member of the next fire time it
\* projects, so duplicates whose passes project the same fire time lead to
\* the same index as one pass.
C14_SameFireTimeKeepsIndex ==
    [][DrainPass
         => /\ index' = index \cup {NextMemberOfPopped}
            /\ (NextMemberOfPopped \in index => index' = index)]_vars

\* C14 witness: the Drainer has popped a duplicate of an enabled id whose
\* member for the next fire time is in the index from an earlier pass.
C14_Witness ==
    /\ dpc = "popped"
    /\ redisUp
    /\ read_btu_task_schedule(db, next_task_schedule_id) = "enabled"
    /\ NextMemberOfPopped \in index

\* C15: after cancel_task_schedule(s) and then create_task_schedule(s), from
\* any earlier state of the queue and the index, the members of s in the
\* index are, once the queue is drained, those that create_task_schedule(s)
\* yields on an empty index and queue: the one member a single Drainer pass
\* writes.
C15_CancelCreateAsFresh ==
    (/\ hpc = "none"
     /\ IsCreate(hreq)
     /\ hreply.written = CREATED
     /\ internal_queue = <<>>
     /\ dpc = "idle")
      => \E t \in 0..now :
            MembersOf(index, hreq.request_content[1])
              = Members(add_task_schedule_to_rq({}, hreq.request_content[1], t, TRUE))

\* the number of whitespace-separated fields of an expression
NumberOfFields(e) ==
    Cardinality({i \in 1..Len(e) :
                    e[i] # Space /\ (i = 1 \/ e[i - 1] = Space)})

\* C16: every instant tz_cron_to_utc_datetimes returns is strictly later
\* than the anchor it was given, in every time zone.
C16_ProjectedAfterAnchor ==
    (returned # <<>> /\ call.fn = "tz_cron_to_utc_datetimes" /\ returned[1].ok)
      => \A i \in 1..Len(returned[1].value) :
            returned[1].value[i] > call.from_utc_datetime

HourFieldOfCall ==
    split_whitespace(cron_str_to_cron_str7(call.cron_expression_string).value)[3]

\* the UTC instants of the expression of the call after its anchor
UtcInstantsOfCall ==
    ScheduleAfter(
        Schedule_from_str(cron_str_to_cron_str7(call.cron_expression_string).value).value,
        call.from_utc_datetime, call.number_of_results)

C19_HourGivenIsZoneTime ==
    (/\ returned # <<>>
     /\ call.fn = "tz_cron_to_utc_datetimes"
     /\ returned[1].ok
     /\ HourFieldOfCall # <<"*">>)
      => /\ Len(returned[1].value) = Len(UtcInstantsOfCall)
         /\ \A i \in 1..Len(UtcInstantsOfCall) :
               returned[1].value[i] = UtcInstantsOfCall[i] - call.cron_timezone
         /\ (/\ call.cron_expression_string = EveryTenMinutesOfOneHour
             /\ call.cron_timezone = America_Los_Angeles
             /\ call.from_utc_datetime = 1
             /\ call.number_of_results = 3)
              => returned[1].value = <<32400, 33000, 33600>>

C19_Witness ==
    /\ returned # <<>>
    /\ call.fn = "tz_cron_to_utc_datetimes"
    /\ call.cron_expression_string = EveryTenMinutesOfOneHour
    /\ call.cron_timezone = America_Los_Angeles
    /\ call.from_utc_datetime = 1
    /\ call.number_of_results = 3
    /\ returned[1].ok
    /\ Len(returned[1].value) = 3

\* the call of scenario S5
ScenarioS5 ==
    /\ returned # <<>>
    /\ call.fn = "tz_cron_to_utc_datetimes"
    /\ call.cron_expression_string = SomeDaysAtHalfPastThree
    /\ call.cron_timezone = America_Los_Angeles
    /\ call.from_utc_datetime = 1
    /\ call.number_of_results = 5

\* 11:30:00Z of day d of the clock
HalfPastEleven(d) == d * 86400 + 41400

\* C20, scenario S5 as written: "30 3 * * Sun-Wed,Sat" in America/Los_Angeles after
\* 2021-12-25T00:00:01Z first gives 11:30 UTC of December 25, 26, 28, 29
\* and 30.
C20_ScenarioS5AsStated ==
    ScenarioS5
      => returned[1] = Ok(<<HalfPastEleven(0), HalfPastEleven(1),
                            HalfPastEleven(3), HalfPastEleven(4),
                            HalfPastEleven(5)>>)

\* C20, scenario S5 as evaluated: "30 3 * * Sun-Wed,Sat" in America/Los_Angeles after
\* 2021-12-25T00:00:01Z first gives 11:30 UTC of December 25 (Saturday),
\* 26 (Sunday), 27 (Monday), 28 (Tuesday) and 29 (Wednesday).
C20_ScenarioS5 ==
    ScenarioS5
      => returned[1] = Ok(<<HalfPastEleven(0), HalfPastEleven(1),
                            HalfPastEleven(2), HalfPastEleven(3),
                            HalfPastEleven(4)>>)

C20_Witness ==
    /\ ScenarioS5
    /\ returned[1].ok
    /\ Len(returned[1].value) = 5
    /\ returned[1].value[1] = HalfPastEleven(0)

\* the Drainer ends its iteration for an id whose row exists and for whose
\* cron_string the projector yields no instants
BadCronPass ==
    /\ dpc = "popped"
    /\ dpc' # "popped"
    /\ ~configPoisoned
    /\ read_btu_task_schedule(db, next_task_schedule_id) # "absent"
    /\ ~tz_cron_to_utc_datetimes(CronOf(next_task_schedule_id), cron_timezone,
                                 now, 1).ok

\* C21: when the Drainer has popped an id whose cron expression has the
\* wrong number of fields or cannot be parsed, the projection ends with an
\* error value, not a panic: the Drainer inserts nothing, drops the id, is
\* back at the top of its loop and both mutexes can still be acquired.
C21_BadCronIsDropped ==
    [][BadCronPass => /\ index' = index
                      /\ dpc' = "idle"
                      /\ next_task_schedule_id' = NoId
                      /\ ~queuePoisoned'
                      /\ ~configPoisoned']_vars

\* a step taken by a worker thread
WorkerStep == dpc' # dpc \/ rpc' # rpc \/ kpc' # kpc

\* C22: a failure of SQL during an iteration of the Drainer, the Re-Seeder
\* or the Runner ends no worker thread and leaves the mutex of the
\* InternalQueue and the mutex of the configuration acquirable
C22_SqlFailureEndsNoWorker ==
    [][~sqlUp /\ WorkerStep =>
          /\ dpc' # "dead" /\ rpc' # "dead" /\ kpc' # "dead"
          /\ queuePoisoned' = queuePoisoned
          /\ configPoisoned' = configPoisoned]_vars

\* one pass of the Runner's loop made while Redis cannot be reached
PassWithoutRedis ==
    /\ kpc = "firing"
    /\ ~redisUp
    /\ ripe' = Tail(ripe)

\* a poll of the Runner that reaches Redis
PollWithRedis ==
    /\ kpc = "haveQ"
    /\ kpc' # "haveQ"
    /\ redisUp
    /\ ~configPoisoned

ProbeFailed == \E i \in 1..Len(returned) : ~returned[i]

WorkersSpawned == dpc # "unspawned" /\ rpc # "unspawned" /\ kpc # "unspawned"

NoThreadStarted ==
    /\ dpc = "unspawned" /\ rpc = "unspawned" /\ kpc = "unspawned"
    /\ hpc = "none"

CreatePass == hpc = "waitQ" /\ hpc' # "waitQ"

ServeStep(type) ==
    /\ hpc = "none" /\ hpc' = "replied"
    /\ hreq'.utf8 /\ hreq'.json
    /\ hreq'.request_type = type

C27_UnknownTypeIsRefused ==
    [][/\ ServeStep("frobnicate") =>
             /\ hreply' = Reply(UNHANDLED, "Err")
             /\ internal_queue' = internal_queue
             /\ index' = index
             /\ ~configPoisoned' /\ ~queuePoisoned'
             /\ mpc' = "listen"
       /\ ServeStep("ping") => hreply' = Reply(PONG, "Ok")]_vars

\* the ping after the unknown request has been answered
C27_Witness ==
    /\ hpc = "none"
    /\ hreq = Req("ping", <<>>, TRUE)
    /\ hreply = Reply(PONG, "Ok")
    /\ mpc = "listen"

\* ids are pushed at the back of the queue
IsAppend ==
    /\ Len(internal_queue') > Len(internal_queue)
    /\ SubSeq(internal_queue', 1, Len(internal_queue)) = internal_queue

\* the Drainer, at the top of its loop, takes the id at the front
IsPopOfHead ==
    /\ dpc = "idle" /\ dpc' = "popped"
    /\ internal_queue # <<>>
    /\ next_task_schedule_id' = Head(internal_queue)
    /\ internal_queue' = Tail(internal_queue)

\* C28: the InternalQueue is first in, first out: every producer appends
\* at the tail, only the Drainer removes, and it removes the head; it holds
\* one popped id at a time, and every member added to the index is added
\* by the Drainer for the id it holds, so the ZADDs follow the order of the
\* pops
C28_QueueIsFifo ==
    [][/\ internal_queue' # internal_queue => IsAppend \/ IsPopOfHead
       /\ dpc' = "popped" /\ dpc # "popped" => IsPopOfHead
       /\ \A e \in index' \ index :
             /\ DrainStep
             /\ StartsWith(e.member, next_task_schedule_id \o <<Pipe>>)]_vars

\* the Drainer holds S1, popped from the head, while S10 appended after it
\* waits, and a member has been added before
C28_Witness ==
    /\ dpc = "popped"
    /\ next_task_schedule_id = S1
    /\ internal_queue # <<>>
    /\ internal_queue[1] = S10
    /\ index # {}

\* the members of the index that are due
Due == {e \in index : e.score <= now}

\* C29: a poll that reaches Redis fetches every member whose score is at
\* most now, however far the clock has jumped, in non-decreasing order of
\* score; the Runner passes them to run_immediate_scheduled_task one by
\* one in that order and ends the poll only after the last of them
C29_PollTakesAllDueInOrder ==
    [][/\ PollWithRedis =>
             /\ Len(ripe') = Cardinality(Due)
             /\ \A e \in Due :
                   \E i \in 1..Len(ripe') : ripe'[i] = from_tsik(e.member)
             /\ \A i, j \in 1..Len(ripe') :
                   i < j => ripe'[i].next_datetime_unix <= ripe'[j].next_datetime_unix
       /\ kpc = "firing" /\ ripe' # ripe =>
             /\ ripe' = Tail(ripe)
             /\ fired'.task_schedule_id = Head(ripe).task_schedule_id
             /\ fired'.next_datetime_unix = Head(ripe).next_datetime_unix
       /\ kpc = "firing" /\ kpc' # "firing" => Len(ripe) = 1 /\ ripe' = <<>>]_vars

\* after a jump of the clock the Runner has fired a member that was due
\* seconds ago, and the next one of the same poll has a later score, in
\* the past as well
C29_Witness ==
    /\ kpc = "firing"
    /\ fired.task_schedule_id # NoId
    /\ ripe # <<>>
    /\ fired.next_datetime_unix + 2 < now
    /\ fired.next_datetime_unix < ripe[1].next_datetime_unix
    /\ ripe[1].next_datetime_unix < now

\* C30: every job record made for a firing of schedule s has origin
\* s.queue_name and timeout the max_task_duration of the task of s, and its
\* id is in the list rq:queue:<s.queue_name>
C30_JobGoesToItsQueue ==
    \A job \in jobs :
       /\ job.origin = QueueNameOf(job.data)
       /\ job.timeout = MaxTaskDurationOf(job.data)
       /\ \E i \in 1..Len(queues[QueueNameOf(job.data)]) :
             queues[QueueNameOf(job.data)][i] = job.job_key_short

\* C31: every list rq:queue:<name> that holds a job id has its key in the
\* set rq:queues, whatever Redis answered to SADD and RPUSH
C31_PushedQueueIsRegistered ==
    \A q \in QueueNames : queues[q] # <<>> => q \in registry

\* the Runner has pushed the job of its last firing onto a registered
\* queue, and the record of another firing, whose SADD or RPUSH failed, is
\* in no list
C31_Witness ==
    /\ fired.job > 0
    /\ \E q \in registry : \E i \in 1..Len(queues[q]) : queues[q][i] = fired.job
    /\ \E job \in jobs :
          \A q \in QueueNames : \A i \in 1..Len(queues[q]) :
             queues[q][i] # job.job_key_short

\* C39: every job id in a list rq:queue:<name> is the id of a record
\* rq:job:<id> that exists and has a data field
C39_PushedJobHasRecord ==
    \A q \in QueueNames : \A i \in 1..Len(queues[q]) :
       \E job \in jobs :
          /\ job.job_key_short = queues[q][i]
          /\ "data" \in DOMAIN job

\* enqueue_job_immediate was called for an id without a record and
\* returned Err, while the list holds the id of a firing
C39_Witness ==
    /\ call # NoCall
    /\ returned = <<FALSE>>
    /\ ~read_job_by_id(jobs, call.job_id).ok
    /\ \E q \in QueueNames : queues[q] # <<>>

\* the entries of the sorted set for schedule id
EntriesOf(idx, id) == {e \in idx : StartsWith(e.member, id \o <<Pipe>>)}

\* the rows S1 and S10 fire at every even second: the first one after t
NextFireTime(t) == t + 2 - (t % 2)

\* the Drainer adds a member for the enabled row it popped
DrainOfEnabled ==
    /\ DrainStep
    /\ ~configPoisoned
    /\ redisUp
    /\ read_btu_task_schedule(db, next_task_schedule_id) = "enabled"

\* C32 as stated: once the Drainer has processed the id of an enabled
\* schedule, the index holds exactly one member of that schedule, the one
\* for the next fire time after now
C32_ExactlyOneMember ==
    [][DrainOfEnabled =>
          EntriesOf(index', next_task_schedule_id) =
             {[member |-> to_tsik([task_schedule_id |-> next_task_schedule_id,
                                   next_datetime_unix |-> NextFireTime(now)]),
               score |-> NextFireTime(now)]}]_vars

\* C32: once the Drainer has processed the id of an enabled schedule, the
\* index holds the member for the next fire time after now, every other
\* member of that schedule is due (score <= now), and in every state at
\* most one member of a schedule has a score > now
C32_OneFutureMember ==
    [][/\ \A id \in Ids :
             Cardinality({e \in EntriesOf(index', id) : e.score > now'}) <= 1
       /\ DrainOfEnabled =>
             /\ [member |-> to_tsik([task_schedule_id |-> next_task_schedule_id,
                                     next_datetime_unix |-> NextFireTime(now)]),
                 score |-> NextFireTime(now)] \in index'
             /\ \A e \in EntriesOf(index', next_task_schedule_id) :
                   e.score # NextFireTime(now) => e.score <= now]_vars

\* the Drainer has added the next member of an enabled schedule while a due
\* member of it waits for the Runner
C32_Witness ==
    \E id \in Ids :
       /\ db[id] = "enabled"
       /\ dpc = "idle"
       /\ \E e \in EntriesOf(index, id) : e.score > now
       /\ \E e \in EntriesOf(index, id) : e.score <= now

\* the ids of the enabled rows
EnabledIds == {id \in Ids : db[id] = "enabled"}

\* queue_full_refill of thread 2 returned Err
RefillFailed == rpc = "refill" /\ rpc' = "idle"

C34_SleepWithinInterval ==
    /\ kpc \notin {"dead", "asleep"}
    /\ \A i \in 1..Len(returned) :
          /\ returned[i].ok
          /\ returned[i].value.two_pow_64s = 0
          /\ returned[i].value.secs \in 0..scheduler_polling_interval

\* C35: a full refresh made while a schedule is disabled leaves no member
\* of that schedule in the index
C35_RefreshRemovesDisabled ==
    [][RefillStep =>
          \A id \in Ids : db[id] = "disabled" => MembersOf(index', id) = {}]_vars

\* C36: from_tsik of the member to_tsik built for (id, ts) yields id and
\* ts, for ids that contain '|' as well, and so does the conversion from
\* the pair (id, decimal string of ts)
C36_FromTsikInvertsToTsik ==
    returned # <<>> =>
       /\ returned[1] = Ok([task_schedule_id |-> call.task_schedule_id,
                            next_datetime_unix |-> call.next_datetime_unix])
       /\ returned[2] = returned[1]

\* a worker thread holds the queue mutex and stands at APP_CONFIG.lock()
WorkerWaitsForConfig ==
    \/ dpc = "popped"
    \/ rpc \in {"refill", "print"}
    \/ kpc = "haveQ"

\* C37: no state is a circular wait in which the handler of a
\* create_task_schedule request holds the configuration mutex and waits for
\* the queue mutex while a worker thread holds the queue mutex and waits for
\* the configuration mutex
C37_NoLockOrderDeadlock == ~(hpc = "waitQ" /\ WorkerWaitsForConfig)

\* C38: no firing is dispatched twice: the Runner makes at most one job for
\* a member (a schedule id with one fire time), and so the Drainer never
\* brings back a member that the Runner has removed and fired.
C38_NoMemberDispatchedTwice ==
    \A i, j \in 1..Len(returned) : i # j => returned[i] # returned[j]

\* a request the handler has to refuse: bytes that are no JSON object with
\* a string request_type, or a create or cancel without request_content
Refused(req) ==
    \/ ~req.utf8
    \/ ~req.json
    \/ /\ req.request_type \in {"create_task_schedule", "cancel_task_schedule"}
       /\ req.request_content = <<>>

\* a handler thread that got the configuration takes a request
AcceptStep ==
    /\ hpc = "none" /\ hpc' # "none"
    /\ ~configPoisoned

\* C40: a request that is not a valid JSON object with a string
\* request_type, and a create_task_schedule or cancel_task_schedule without
\* request_content, make handle_client_request return an error and leave
\* the InternalQueue and the Due-Time Index unchanged.
C40_RefusedRequestReturnsErr ==
    [][AcceptStep /\ Refused(hreq') =>
          /\ hreply'.result = "Err"
          /\ internal_queue' = internal_queue
          /\ index' = index]_vars

=============================================================================
